---- MODULE Spec2Model ----
(***************************************************************************)
(* gotify-wechat-plugin: the token cache (getAccessToken), the             *)
(* multi-recipient delivery (sendToMultiple, the /send and /test           *)
(* handlers), the stream listener (StreamListener.Start / Stop) and the    *)
(* message router (NewMessageRouter / Match).                              *)
(***************************************************************************)
EXTENDS Integers, Sequences, FiniteSets, TLC

VARIABLES
    now,        \* time.Now(), in seconds
    Token,      \* TokenCache.Token ("" = none)
    ExpiresAt,  \* TokenCache.ExpiresAt, in seconds
    rwWriter,   \* TokenCache.mu: the goroutine that called Lock (0 = none)
    rwReaders,  \* TokenCache.mu: the goroutines holding RLock
    pc,         \* per goroutine: its position in getAccessToken / sendToWeChat
    call,       \* per goroutine: what its current getAccessToken call observed
    exchanges,  \* number of POSTs to cgi-bin/stable_token made so far
    cacheSeq,   \* which exchange stored the cached token (0 = none)
    lastEx,     \* outcome of the last completed exchange
    calls,      \* number of getAccessToken calls started so far
    firstRound, \* no call has started after another call returned
    enabled,    \* WeChatPlugin.enabled
    config,     \* WeChatPlugin.config: the legacy OpenID and the Recipients
    job,        \* the sendToMultiple call in progress, and the request it serves
    totalSent,  \* MessageManager.totalSent
    totalFail,  \* MessageManager.totalFail
    lastSentAt, \* MessageManager.lastSentAt (-1 = never)
    lastError,  \* MessageManager.lastError: <<failed, total>> of the last NotifyError
    notified,   \* the notifications sent to the host, in order
    outcome,    \* per goroutine: how its sendToWeChat attempt ended
    attempts,   \* number of sendToWeChat attempts started so far
    reply,      \* the answer to the last /send or /test request
    deliveries, \* number of requests, events and direct calls handled so far
    routes,     \* Config.MessageRoutes: the paths, in declared order
    router,     \* the MessageRouter: allowAll and appIDs (nil before it is built)
    matched,    \* the last Match call: the event's AppID and the result
    sPc,        \* position of the Start goroutine
    backoff,    \* Start's backoff, in seconds
    stopCh,     \* StreamListener.stopCh is closed
    doneCh,     \* StreamListener.done is closed
    conn,       \* StreamListener.conn: "nil" or "set"
    sock,       \* the connection of the last dial: "none", "open", "closed"
    stopPc,     \* position of the Stop caller
    frames,     \* number of frames read so far
    forwarded,  \* number of forwardToWeChat goroutines started so far
    prevWait,   \* the delay of the last backoff wait that elapsed (0 = none)
    connectedSince, \* a dial has succeeded since that wait
    lateConn,   \* the last dial completed after the stop request
    lateForwards, \* frames forwarded from a connection opened after the stop request
    lastCall,   \* the last call made from outside: its name, its error, its argument
    stream,     \* WeChatPlugin.stream: the listener's number (0 = nil)
    listeners,  \* the listeners created so far: their router, and whether Start runs
    resolution, \* routing variant: the last resolveRecipients call and its result
    lastFrame,  \* the frame that ReadMessage returned last
    finished,   \* the forwardToWeChat goroutines that have returned, in that order
    hostDown,   \* the host's SendMessage returns an error
    tokenCache, \* WeChatPlugin.tokenCache: the instance's number in caches (0 = nil)
    caches,     \* the TokenCache instances Enable has made: content and lock
    held,       \* per getAccessToken call: the instances its lock calls were made on
    fatal       \* the runtime has stopped the process (unlock of an unlocked RWMutex)

tokenVars == <<now, Token, ExpiresAt, rwWriter, rwReaders, pc, call, exchanges,
               cacheSeq, lastEx, calls, firstRound>>

sendVars == <<enabled, config, job, totalSent, totalFail, lastSentAt, lastError,
              notified, outcome, attempts, reply, deliveries>>

routerVars == <<routes, router, matched>>

streamVars == <<sPc, backoff, stopCh, doneCh, conn, sock, stopPc, frames, forwarded,
                prevWait, connectedSince, lateConn, lateForwards>>

cacheVars == <<tokenCache, caches, held, fatal>>

lifeVars == <<lastCall, stream, listeners, resolution, lastFrame, finished,
              hostDown, cacheVars>>

vars == <<tokenVars, sendVars, routerVars, streamVars, lifeVars>>

----------------------------------------------------------------------------
(* Bounds *)
NumCallers == 2
MaxExchanges == 3
MaxCalls == 3
MaxNow == 600
MaxRecipients == 2
MaxDeliveries == 2
MaxPathLen == 2
MaxRoutes == 2
MaxFrames == 2
MaxFailures == 9
MaxNotices == 3
MaxServed == 1
MaxRules == 2

(* Program constants *)
Margin == 300
InitialBackoff == 1
MaxBackoff == 120

Callers == 1..NumCallers
TickSteps == {100, 495}
Lifetimes == {200, 600}
Tokens == {"tok"}

SeqsUpTo(S, n) == UNION {[1..k -> S] : k \in 0..n}

\* What the stable_token endpoint can answer (wechat.go 512-534).
Responses ==
    {[fail |-> "transport", errcode |-> 0, access_token |-> "", expires_in |-> 0],
     [fail |-> "none", errcode |-> 40013, access_token |-> "", expires_in |-> 0],
     [fail |-> "none", errcode |-> 0, access_token |-> "", expires_in |-> 0]}
    \cup {[fail |-> "none", errcode |-> 0, access_token |-> t, expires_in |-> l] :
             t \in Tokens, l \in Lifetimes}

----------------------------------------------------------------------------
(* getAccessToken *)

\* wechat.go 480: the check under the read lock.
FastHitInclusive(tok, exp, t) == tok # "" /\ t <= exp - Margin
FastHit(tok, exp, t) == tok # "" /\ t < exp - Margin

\* wechat.go 490: the same check again under the exclusive lock.
LockedHitNever(tok, exp, t) == FALSE
LockedHit(tok, exp, t) == tok # "" /\ t < exp - Margin

\* wechat.go 512-539: what the exchange stores and returns.
\* The result is <<Token', ExpiresAt', returned token, error?>>.
ExchangeResultStoreFirst(tok, exp, resp, t) ==
    IF resp.fail # "none" THEN <<tok, exp, "", TRUE>>
    ELSE IF resp.errcode # 0 \/ resp.access_token = ""
         THEN <<resp.access_token, t + resp.expires_in, "", TRUE>>
         ELSE <<resp.access_token, t + resp.expires_in, resp.access_token, FALSE>>
ExchangeResult(tok, exp, resp, t) ==
    IF resp.fail # "none" THEN <<tok, exp, "", TRUE>>
    ELSE IF resp.errcode # 0 THEN <<tok, exp, "", TRUE>>
    ELSE IF resp.access_token = "" THEN <<tok, exp, "", TRUE>>
    ELSE <<resp.access_token, t + resp.expires_in, resp.access_token, FALSE>>

\* What a call observed: which exchange it made (0 = none), what it returned,
\* which exchange the returned token came from, and how long the cached token
\* had left when it returned.
NoCall == [exSeq |-> 0, kind |-> "none", srcSeq |-> 0, slack |-> 0]

Active == {c \in Callers : pc[c] \notin {"idle", "done"}}

\* A goroutine enters getAccessToken (wechat.go 478). firstRound stays true
\* while every call made so far started before any call returned.
BeginCall(c) ==
    /\ pc' = [pc EXCEPT ![c] = "rlock"]
    /\ call' = [call EXCEPT ![c] = NoCall]
    /\ firstRound' = (firstRound /\ \A d \in Callers : pc[d] # "done")

Call(c) ==
    /\ pc[c] \in {"idle", "done"}
    /\ calls < MaxCalls
    /\ calls' = calls + 1
    /\ exchanges + Cardinality(Active) < MaxExchanges
    /\ BeginCall(c)
    /\ UNCHANGED <<now, Token, ExpiresAt, rwWriter, rwReaders, exchanges, cacheSeq, lastEx>>
    /\ UNCHANGED <<sendVars, routerVars, streamVars, lifeVars>>

\* wechat.go 479: RLock blocks while a writer holds or waits for the lock.
RLockNoWait(c) ==
    /\ pc[c] = "rlock"
    /\ rwReaders' = rwReaders \cup {c}
    /\ pc' = [pc EXCEPT ![c] = "rlocked"]
    /\ UNCHANGED <<now, Token, ExpiresAt, rwWriter, call, exchanges, cacheSeq, lastEx, calls, firstRound>>
    /\ UNCHANGED <<sendVars, routerVars, streamVars, lifeVars>>
RLock(c) ==
    /\ pc[c] = "rlock"
    /\ rwWriter = 0
    /\ rwReaders' = rwReaders \cup {c}
    /\ pc' = [pc EXCEPT ![c] = "rlocked"]
    /\ UNCHANGED <<now, Token, ExpiresAt, rwWriter, call, exchanges, cacheSeq, lastEx, calls, firstRound>>
    /\ UNCHANGED <<sendVars, routerVars, streamVars, lifeVars>>

\* wechat.go 480-485: the fast path; RUnlock on both branches.
FastPath(c) ==
    /\ pc[c] = "rlocked"
    /\ rwReaders' = rwReaders \ {c}
    /\ IF FastHit(Token, ExpiresAt, now)
       THEN /\ pc' = [pc EXCEPT ![c] = "done"]
            /\ call' = [call EXCEPT ![c].kind = "cached",
                                    ![c].slack = ExpiresAt - now,
                                    ![c].srcSeq = cacheSeq]
       ELSE /\ pc' = [pc EXCEPT ![c] = "lock"]
            /\ UNCHANGED call
    /\ UNCHANGED <<now, Token, ExpiresAt, rwWriter, exchanges, cacheSeq, lastEx, calls, firstRound>>
    /\ UNCHANGED <<sendVars, routerVars, streamVars, lifeVars>>

\* wechat.go 487: Lock first excludes the other writers and new readers ...
Lock(c) ==
    /\ pc[c] = "lock"
    /\ rwWriter = 0
    /\ rwWriter' = c
    /\ pc' = [pc EXCEPT ![c] = "wwait"]
    /\ UNCHANGED <<now, Token, ExpiresAt, rwReaders, call, exchanges, cacheSeq, lastEx, calls, firstRound>>
    /\ UNCHANGED <<sendVars, routerVars, streamVars, lifeVars>>

\* ... and then waits for the readers that hold the lock to leave.
LockAcquired(c) ==
    /\ pc[c] = "wwait"
    /\ rwReaders = {}
    /\ pc' = [pc EXCEPT ![c] = "locked"]
    /\ UNCHANGED <<now, Token, ExpiresAt, rwWriter, rwReaders, call, exchanges, cacheSeq, lastEx, calls, firstRound>>
    /\ UNCHANGED <<sendVars, routerVars, streamVars, lifeVars>>

\* wechat.go 490-512: the second check; a miss sends the exchange request.
ReCheck(c) ==
    /\ pc[c] = "locked"
    /\ IF LockedHit(Token, ExpiresAt, now)
       THEN /\ pc' = [pc EXCEPT ![c] = "done"]
            /\ rwWriter' = 0
            /\ call' = [call EXCEPT ![c].kind = "cached",
                                    ![c].slack = ExpiresAt - now,
                                    ![c].srcSeq = cacheSeq]
            /\ UNCHANGED exchanges
       ELSE /\ pc' = [pc EXCEPT ![c] = "exchange"]
            /\ exchanges' = exchanges + 1
            /\ call' = [call EXCEPT ![c].exSeq = exchanges + 1]
            /\ UNCHANGED rwWriter
    /\ UNCHANGED <<now, Token, ExpiresAt, rwReaders, cacheSeq, lastEx, calls, firstRound>>
    /\ UNCHANGED <<sendVars, routerVars, streamVars, lifeVars>>

\* wechat.go 512-536: the answer arrives. A failure returns at once and the
\* deferred Unlock runs; a success assigns Token (line 536).
ExchangeDone(c) ==
    /\ pc[c] = "exchange"
    /\ \E resp \in Responses :
         LET r == ExchangeResult(Token, ExpiresAt, resp, now) IN
         /\ Token' = r[1]
         /\ cacheSeq' = IF r[4] THEN cacheSeq ELSE call[c].exSeq
         /\ lastEx' = IF r[4] THEN "fail" ELSE "ok"
         /\ call' = [call EXCEPT ![c].kind = IF r[4] THEN "error" ELSE "fresh",
                                 ![c].slack = r[2] - now,
                                 ![c].srcSeq = IF r[4] THEN 0 ELSE call[c].exSeq]
         /\ IF r[4]
            THEN /\ ExpiresAt' = r[2]
                 /\ rwWriter' = 0
                 /\ pc' = [pc EXCEPT ![c] = "done"]
            ELSE /\ UNCHANGED <<ExpiresAt, rwWriter>>
                 /\ pc' = [pc EXCEPT ![c] = "store"]
    /\ UNCHANGED <<now, rwReaders, exchanges, calls, firstRound>>
    /\ UNCHANGED <<sendVars, routerVars, streamVars, lifeVars>>

\* wechat.go 537-539: ExpiresAt is assigned, time.Now() plus expires_in; the
\* token is returned and the deferred Unlock runs.
StoreExpiry(c) ==
    /\ pc[c] = "store"
    /\ ExpiresAt' = now + call[c].slack
    /\ rwWriter' = 0
    /\ pc' = [pc EXCEPT ![c] = "done"]
    /\ UNCHANGED <<now, Token, rwReaders, call, exchanges, cacheSeq, lastEx, calls, firstRound>>
    /\ UNCHANGED <<sendVars, routerVars, streamVars, lifeVars>>

\* Time passes.
Tick ==
    /\ \E d \in TickSteps : now + d <= MaxNow /\ now' = now + d
    /\ UNCHANGED <<Token, ExpiresAt, rwWriter, rwReaders, pc, call, exchanges, cacheSeq, lastEx, calls, firstRound>>
    /\ UNCHANGED <<sendVars, routerVars, streamVars, lifeVars>>

TokenInit ==
    /\ now = 0
    /\ Token = ""
    /\ ExpiresAt = 0
    /\ rwWriter = 0
    /\ rwReaders = {}
    /\ pc = [c \in Callers |-> "idle"]
    /\ call = [c \in Callers |-> NoCall]
    /\ exchanges = 0
    /\ cacheSeq = 0
    /\ lastEx = "none"
    /\ calls = 0
    /\ firstRound = TRUE

TokenNext ==
    \/ \E c \in Callers : Call(c)
    \/ \E c \in Callers : RLock(c)
    \/ \E c \in Callers : FastPath(c)
    \/ \E c \in Callers : Lock(c)
    \/ \E c \in Callers : LockAcquired(c)
    \/ \E c \in Callers : ReCheck(c)
    \/ \E c \in Callers : ExchangeDone(c)
    \/ \E c \in Callers : StoreExpiry(c)
    \/ Tick

----------------------------------------------------------------------------
(* MessageRouter: NewMessageRouter and Match (stream.go 28-68) *)

\* Strings are sequences of characters.
Wild == <<"*">>
MessagesOne == <<"m", "e", "s", "s", "a", "g", "e", "s", "/", "1">>
MessagesThree == <<"m", "e", "s", "s", "a", "g", "e", "s", "/", "3">>
AppZeroOne == <<"a", "p", "p", "/", "0", "1">>

PathChars == {" ", "*", "1"}
Digits == <<"0", "1", "2", "3", "4", "5", "6", "7", "8", "9">>
IsDigit(ch) == \E d \in 1..10 : Digits[d] = ch
DigitValue(ch) == (CHOOSE d \in 1..10 : Digits[d] = ch) - 1

RECURSIVE TrimLeft(_)
TrimLeft(s) ==
    IF s = <<>> THEN s
    ELSE IF Head(s) = " " THEN TrimLeft(Tail(s)) ELSE s

RECURSIVE TrimRight(_)
TrimRight(s) ==
    IF s = <<>> THEN s
    ELSE IF s[Len(s)] = " " THEN TrimRight(SubSeq(s, 1, Len(s) - 1)) ELSE s

\* strings.TrimSpace (stream.go 45, part_001 100).
TrimSpaceNone(s) == s
TrimSpace(s) == TrimRight(TrimLeft(s))

\* The paths ValidateAndSetConfig accepts: not blank (part_001 99-103).
Paths ==
    {p \in SeqsUpTo(PathChars, MaxPathLen) : TrimSpace(p) # <<>>}
    \cup {MessagesOne, MessagesThree, AppZeroOne}

\* Enable builds the listener only for a non-empty rule list (wechat.go 164).
RouteLists == SeqsUpTo(Paths, MaxRoutes) \ {<<>>}

EventAppIDs == {1, 2, 11}

\* pathIDRegex (\d+)$ : the submatch is the longest run of digits that ends
\* the string; <<>> when the regex does not match (stream.go 35, 52).
TrailingDigitsLast(s) ==
    IF s = <<>> \/ ~IsDigit(s[Len(s)]) THEN <<>> ELSE <<s[Len(s)]>>
RECURSIVE TrailingDigits(_)
TrailingDigits(s) ==
    IF s = <<>> \/ ~IsDigit(s[Len(s)]) THEN <<>>
    ELSE Append(TrailingDigits(SubSeq(s, 1, Len(s) - 1)), s[Len(s)])

\* strconv.ParseInt(ds, 10, 64) on a non-empty run of digits (stream.go 54).
\* Its range error needs 19 digits, more than any path here has.
RECURSIVE ParseInt(_)
ParseInt(ds) ==
    IF ds = <<>> THEN 0
    ELSE 10 * ParseInt(SubSeq(ds, 1, Len(ds) - 1)) + DigitValue(ds[Len(ds)])

\* The loop of NewMessageRouter: it returns at the first wildcard rule.
RECURSIVE RouterFrom(_, _)
RouterFrom(rs, ids) ==
    IF rs = <<>> THEN [allowAll |-> FALSE, appIDs |-> ids]
    ELSE LET path == TrimSpace(Head(rs))
             m == TrailingDigits(path)
         IN  IF path = Wild THEN [allowAll |-> TRUE, appIDs |-> ids]
             ELSE RouterFrom(Tail(rs), IF m # <<>> THEN ids \cup {ParseInt(m)} ELSE ids)

NewMessageRouter(rs) == RouterFrom(rs, {})

Match(r, appid) == r.allowAll \/ appid \in r.appIDs

NoRouter == [allowAll |-> FALSE, appIDs |-> {}, built |-> FALSE]
NoMatch == [appid |-> 0, result |-> FALSE, called |-> FALSE]
Built(r) == [allowAll |-> r.allowAll, appIDs |-> r.appIDs, built |-> TRUE]

\* stream.go 81-88: the listener is created with the router of the rules.
NewStreamListener ==
    /\ ~router.built
    /\ router' = Built(NewMessageRouter(routes))
    /\ UNCHANGED <<routes, matched>>
    /\ UNCHANGED <<tokenVars, sendVars, streamVars, lifeVars>>

\* stream.go 63-68: Match on an event of application appid.
MatchEvent(appid) ==
    /\ router.built
    /\ matched' = [appid |-> appid, result |-> Match(router, appid), called |-> TRUE]
    /\ UNCHANGED <<routes, router>>
    /\ UNCHANGED <<tokenVars, sendVars, streamVars, lifeVars>>

RouterIdle ==
    /\ routes = <<>>
    /\ router = NoRouter
    /\ matched = NoMatch

RouterNext ==
    \/ NewStreamListener
    \/ \E appid \in EventAppIDs : MatchEvent(appid)

----------------------------------------------------------------------------
(* StreamListener: Start, Stop, connectAndListen (stream.go 91-139, 185-232) *)

StreamRouteLists == {<<Wild>>, <<MessagesOne>>}
FrameAppIDs == {1, 2}
Frames ==
    {[decodes |-> FALSE, appid |-> 0]}
    \cup {[decodes |-> TRUE, appid |-> a] : a \in FrameAppIDs}

\* stream.go 114-117: the backoff after a wait that elapsed.
NextBackoffUncapped(b) == 2 * b
NextBackoff(b) == IF 2 * b > MaxBackoff THEN MaxBackoff ELSE 2 * b

\* The failures of the network and of the URL, bounded.
MayFail == Len(notified) < MaxFailures

\* stream.go 92-95: Start begins.
StartBegin ==
    /\ sPc = "start"
    /\ backoff' = InitialBackoff
    /\ sPc' = "top"
    /\ UNCHANGED <<stopCh, doneCh, conn, sock, stopPc, frames, forwarded,
                   prevWait, connectedSince, lateConn, lateForwards>>
    /\ UNCHANGED <<tokenVars, sendVars, routerVars, lifeVars>>

\* stream.go 97-105, 186-189: the top of the loop, then connectAndListen
\* resolves the URL and starts to dial.
LoopTop(resolved) ==
    /\ sPc = "top"
    /\ IF stopCh
       THEN sPc' = "exited" /\ doneCh' = TRUE
       ELSE /\ resolved \/ MayFail
            /\ sPc' = IF resolved THEN "dialing" ELSE "failed"
            /\ UNCHANGED doneCh
    /\ UNCHANGED <<backoff, stopCh, conn, sock, stopPc, frames, forwarded,
                   prevWait, connectedSince, lateConn, lateForwards>>
    /\ UNCHANGED <<tokenVars, sendVars, routerVars, lifeVars>>

\* stream.go 191-199: a listener that starts again from the initial delay
\* once a dial has succeeded.
DialDoneResets(ok) ==
    /\ sPc = "dialing"
    /\ IF ok
       THEN /\ sPc' = "listen"
            /\ conn' = "set"
            /\ sock' = "open"
            /\ connectedSince' = TRUE
            /\ lateConn' = stopCh
            /\ backoff' = InitialBackoff
       ELSE /\ MayFail
            /\ sPc' = "failed"
            /\ UNCHANGED <<conn, sock, connectedSince, lateConn, backoff>>
    /\ UNCHANGED <<stopCh, doneCh, stopPc, frames, forwarded,
                   prevWait, lateForwards>>
    /\ UNCHANGED <<tokenVars, sendVars, routerVars, lifeVars>>

\* stream.go 191-199: Dial returns; on success s.conn is set.
DialDone(ok) ==
    /\ sPc = "dialing"
    /\ IF ok
       THEN /\ sPc' = "listen"
            /\ conn' = "set"
            /\ sock' = "open"
            /\ connectedSince' = TRUE
            /\ lateConn' = stopCh
       ELSE /\ MayFail
            /\ sPc' = "failed"
            /\ UNCHANGED <<conn, sock, connectedSince, lateConn>>
    /\ UNCHANGED <<backoff, stopCh, doneCh, stopPc, frames, forwarded,
                   prevWait, lateForwards>>
    /\ UNCHANGED <<tokenVars, sendVars, routerVars, lifeVars>>

\* stream.go 210-215, 201-206, 107: the top of the read loop. On a stop
\* connectAndListen returns nil, its deferred function clears s.conn and
\* closes the connection, and Start loops.
ListenCheckNoStop ==
    /\ sPc = "listen"
    /\ sPc' = "reading"
    /\ UNCHANGED <<conn, sock>>
    /\ UNCHANGED <<backoff, stopCh, doneCh, stopPc, frames, forwarded,
                   prevWait, connectedSince, lateConn, lateForwards>>
    /\ UNCHANGED <<tokenVars, sendVars, routerVars, lifeVars>>
ListenCheck ==
    /\ sPc = "listen"
    /\ IF stopCh
       THEN sPc' = "top" /\ conn' = "nil" /\ sock' = "closed"
       ELSE sPc' = "reading" /\ UNCHANGED <<conn, sock>>
    /\ UNCHANGED <<backoff, stopCh, doneCh, stopPc, frames, forwarded,
                   prevWait, connectedSince, lateConn, lateForwards>>
    /\ UNCHANGED <<tokenVars, sendVars, routerVars, lifeVars>>

\* stream.go 228-230: the forwardToWeChat goroutines started so far, numbered
\* in the order of their events, and those that have not returned yet.
Spawned == 1..forwarded
Running == {t \in Spawned : \A i \in 1..Len(finished) : finished[i].task # t}

\* stream.go 217-230: ReadMessage returns a frame; a frame that does not
\* decode is skipped, a matching event starts a forwardToWeChat goroutine.
ReadFrameWaits(f) ==
    /\ sPc = "reading"
    /\ sock = "open"
    /\ Running = {}
    /\ frames < MaxFrames
    /\ frames' = frames + 1
    /\ lastFrame' = f
    /\ sPc' = "listen"
    /\ IF ~f.decodes
       THEN UNCHANGED <<matched, forwarded, lateForwards>>
       ELSE /\ matched' = [appid |-> f.appid, result |-> Match(router, f.appid),
                           called |-> TRUE]
            /\ forwarded' = IF Match(router, f.appid) THEN forwarded + 1 ELSE forwarded
            /\ lateForwards' = IF Match(router, f.appid) /\ lateConn
                               THEN lateForwards + 1 ELSE lateForwards
    /\ UNCHANGED <<backoff, stopCh, doneCh, conn, sock, stopPc,
                   prevWait, connectedSince, lateConn>>
    /\ UNCHANGED <<routes, router>>
    /\ UNCHANGED <<tokenVars, sendVars>>
    /\ UNCHANGED <<lastCall, stream, listeners, resolution, finished, hostDown, cacheVars>>
ReadFrameStrict(f) ==
    /\ sPc = "reading"
    /\ sock = "open"
    /\ frames < MaxFrames
    /\ frames' = frames + 1
    /\ lastFrame' = f
    /\ IF ~f.decodes
       THEN /\ sPc' = "failed"
            /\ conn' = "nil"
            /\ sock' = "closed"
            /\ UNCHANGED <<matched, forwarded, lateForwards>>
       ELSE /\ sPc' = "listen"
            /\ matched' = [appid |-> f.appid, result |-> Match(router, f.appid),
                           called |-> TRUE]
            /\ forwarded' = IF Match(router, f.appid) THEN forwarded + 1 ELSE forwarded
            /\ lateForwards' = IF Match(router, f.appid) /\ lateConn
                               THEN lateForwards + 1 ELSE lateForwards
            /\ UNCHANGED <<conn, sock>>
    /\ UNCHANGED <<backoff, stopCh, doneCh, stopPc, prevWait, connectedSince, lateConn>>
    /\ UNCHANGED <<routes, router>>
    /\ UNCHANGED <<tokenVars, sendVars>>
    /\ UNCHANGED <<lastCall, stream, listeners, resolution, finished, hostDown, cacheVars>>
ReadFrame(f) ==
    /\ sPc = "reading"
    /\ sock = "open"
    /\ frames < MaxFrames
    /\ frames' = frames + 1
    /\ lastFrame' = f
    /\ sPc' = "listen"
    /\ IF ~f.decodes
       THEN UNCHANGED <<matched, forwarded, lateForwards>>
       ELSE /\ matched' = [appid |-> f.appid, result |-> Match(router, f.appid),
                           called |-> TRUE]
            /\ forwarded' = IF Match(router, f.appid) THEN forwarded + 1 ELSE forwarded
            /\ lateForwards' = IF Match(router, f.appid) /\ lateConn
                               THEN lateForwards + 1 ELSE lateForwards
    /\ UNCHANGED <<backoff, stopCh, doneCh, conn, sock, stopPc,
                   prevWait, connectedSince, lateConn>>
    /\ UNCHANGED <<routes, router>>
    /\ UNCHANGED <<tokenVars, sendVars>>
    /\ UNCHANGED <<lastCall, stream, listeners, resolution, finished, hostDown, cacheVars>>

\* stream.go 142-146
Connected == conn # "nil"

\* stream.go 217-220, 201-206: ReadMessage fails on the open connection.
ReadFailKeepsConn ==
    /\ sPc = "reading"
    /\ sock = "open"
    /\ MayFail
    /\ sPc' = "failed"
    /\ sock' = "closed"
    /\ UNCHANGED <<backoff, stopCh, doneCh, conn, stopPc, frames, forwarded,
                   prevWait, connectedSince, lateConn, lateForwards>>
    /\ UNCHANGED <<tokenVars, sendVars, routerVars, lifeVars>>
ReadFail ==
    /\ sPc = "reading"
    /\ sock = "open"
    /\ MayFail
    /\ sPc' = "failed"
    /\ conn' = "nil"
    /\ sock' = "closed"
    /\ UNCHANGED <<backoff, stopCh, doneCh, stopPc, frames, forwarded,
                   prevWait, connectedSince, lateConn, lateForwards>>
    /\ UNCHANGED <<tokenVars, sendVars, routerVars, lifeVars>>

\* The same, on a connection that Stop has closed.
ReadClosed ==
    /\ sPc = "reading"
    /\ sock = "closed"
    /\ sPc' = "failed"
    /\ conn' = "nil"
    /\ UNCHANGED <<backoff, stopCh, doneCh, sock, stopPc, frames, forwarded,
                   prevWait, connectedSince, lateConn, lateForwards>>
    /\ UNCHANGED <<tokenVars, sendVars, routerVars, lifeVars>>

\* stream.go 106-113: connectAndListen returned an error; unless stopped,
\* Start notifies the host (wechat.go 99-116) and starts the wait.
AfterErrorGivesUp ==
    /\ sPc = "failed"
    /\ sPc' = "exited"
    /\ doneCh' = TRUE
    /\ UNCHANGED <<lastError, notified>>
    /\ UNCHANGED <<backoff, stopCh, conn, sock, stopPc, frames, forwarded,
                   prevWait, connectedSince, lateConn, lateForwards>>
    /\ UNCHANGED <<enabled, config, job, totalSent, totalFail, lastSentAt,
                   outcome, attempts, reply, deliveries>>
    /\ UNCHANGED <<tokenVars, routerVars, lifeVars>>
AfterError ==
    /\ sPc = "failed"
    /\ IF stopCh
       THEN /\ sPc' = "exited"
            /\ doneCh' = TRUE
            /\ UNCHANGED <<lastError, notified>>
       ELSE /\ sPc' = "backoff"
            /\ lastError' = <<1, 1>>
            /\ notified' = Append(notified, [type |-> "error", count |-> 1, total |-> 1])
            /\ UNCHANGED doneCh
    /\ UNCHANGED <<backoff, stopCh, conn, sock, stopPc, frames, forwarded,
                   prevWait, connectedSince, lateConn, lateForwards>>
    /\ UNCHANGED <<enabled, config, job, totalSent, totalFail, lastSentAt,
                   outcome, attempts, reply, deliveries>>
    /\ UNCHANGED <<tokenVars, routerVars, lifeVars>>

\* stream.go 114-119: the delay elapses.
BackoffElapsed ==
    /\ sPc = "backoff"
    /\ backoff' = NextBackoff(backoff)
    /\ prevWait' = backoff
    /\ connectedSince' = FALSE
    /\ sPc' = "top"
    /\ UNCHANGED <<stopCh, doneCh, conn, sock, stopPc, frames, forwarded,
                   lateConn, lateForwards>>
    /\ UNCHANGED <<tokenVars, sendVars, routerVars, lifeVars>>

\* stream.go 120-122, 92: the wait ends on stopCh.
BackoffStop ==
    /\ sPc = "backoff"
    /\ stopCh
    /\ sPc' = "exited"
    /\ doneCh' = TRUE
    /\ UNCHANGED <<backoff, stopCh, conn, sock, stopPc, frames, forwarded,
                   prevWait, connectedSince, lateConn, lateForwards>>
    /\ UNCHANGED <<tokenVars, sendVars, routerVars, lifeVars>>

\* stream.go 130: Stop closes stopCh.
StopCall ==
    /\ stopPc = "idle"
    /\ sPc # "none"
    /\ stopCh' = TRUE
    /\ stopPc' = "closing"
    /\ UNCHANGED <<sPc, backoff, doneCh, conn, sock, frames, forwarded,
                   prevWait, connectedSince, lateConn, lateForwards>>
    /\ UNCHANGED <<tokenVars, sendVars, routerVars, lifeVars>>

\* stream.go 132-136: Stop closes the connection s.conn holds.
StopConn ==
    /\ stopPc = "closing"
    /\ sock' = IF conn # "nil" THEN "closed" ELSE sock
    /\ stopPc' = "waiting"
    /\ UNCHANGED <<sPc, backoff, stopCh, doneCh, conn, frames, forwarded,
                   prevWait, connectedSince, lateConn, lateForwards>>
    /\ UNCHANGED <<tokenVars, sendVars, routerVars, lifeVars>>

\* stream.go 138: Stop returns once done is closed.
StopReturn ==
    /\ stopPc = "waiting"
    /\ doneCh
    /\ stopPc' = "returned"
    /\ UNCHANGED <<sPc, backoff, stopCh, doneCh, conn, sock, frames, forwarded,
                   prevWait, connectedSince, lateConn, lateForwards>>
    /\ UNCHANGED <<tokenVars, sendVars, routerVars, lifeVars>>

StreamIdle ==
    /\ sPc = "none"
    /\ backoff = 0
    /\ stopCh = FALSE
    /\ doneCh = FALSE
    /\ conn = "nil"
    /\ sock = "none"
    /\ stopPc = "idle"
    /\ frames = 0
    /\ forwarded = 0
    /\ prevWait = 0
    /\ connectedSince = FALSE
    /\ lateConn = FALSE
    /\ lateForwards = 0

StreamNext ==
    \/ StartBegin
    \/ \E resolved \in BOOLEAN : LoopTop(resolved)
    \/ \E ok \in BOOLEAN : DialDone(ok)
    \/ ListenCheck
    \/ \E f \in Frames : ReadFrame(f)
    \/ ReadFail
    \/ ReadClosed
    \/ AfterError
    \/ BackoffElapsed
    \/ BackoffStop
    \/ StopCall
    \/ StopConn
    \/ StopReturn

\* What the scheduler and the network guarantee: a goroutine that can step
\* does, a dial returns, a read on a closed connection fails. Neither the
\* delay of the wait nor the arrival of a frame is guaranteed.
StreamFairness ==
    /\ WF_vars(StartBegin)
    /\ WF_vars(\E resolved \in BOOLEAN : LoopTop(resolved))
    /\ WF_vars(\E ok \in BOOLEAN : DialDone(ok))
    /\ WF_vars(ListenCheck)
    /\ WF_vars(ReadClosed)
    /\ WF_vars(AfterError)
    /\ WF_vars(BackoffStop)
    /\ WF_vars(StopConn)
    /\ WF_vars(StopReturn)

----------------------------------------------------------------------------
(* Config, DefaultConfig, ValidateAndSetConfig (part_001 8-115) *)

Blank == <<" ">>
wxApp == <<"w", "x", "1">>
ghApp == <<"g", "h", "1">>
secret == <<"s", "e", "c">>
template == <<"t", "p", "l">>
jumpDefault == <<"h", "t", "t", "p", "s", ":", "/", "/", "1", "2", "7", ".", "0", ".", "0", ".", "1">>
jumpOwn == <<"h", "t", "t", "p", "s", ":", "/", "/", "x">>
clientTok == <<"C", "t", "o", "k">>
nameA == <<"a", "l", "i", "c", "e">>
nameB == <<"b", "o", "b">>
nameC == <<"c", "a", "r", "o", "l">>

\* strings.HasPrefix
HasPrefix(s, p) == Len(s) >= Len(p) /\ SubSeq(s, 1, Len(p)) = p

\* WeChatPlugin.config and Config.MessageRoutes of a plugin that has no
\* configuration yet (main.go 22: config is nil).
NoConfig ==
    [AppID |-> <<>>, AppSecret |-> <<>>, TemplateID |-> <<>>, JumpURL |-> <<>>,
     OpenID |-> <<>>, Recipients |-> <<>>, ClientToken |-> <<>>]

\* A candidate is a Config as the host passes it: the fields above and
\* MessageRoutes, the paths in order.
NoCand ==
    [AppID |-> <<>>, AppSecret |-> <<>>, TemplateID |-> <<>>, JumpURL |-> <<>>,
     OpenID |-> <<>>, Recipients |-> <<>>, ClientToken |-> <<>>, MessageRoutes |-> <<>>]

\* part_001 79-92: the first recipient that fails a check, in order.
RECURSIVE RecipientError(_, _, _)
RecipientError(rs, i, seen) ==
    IF i > Len(rs) THEN "none"
    ELSE IF TrimSpace(rs[i].Name) = <<>> THEN "recipient name is required"
    ELSE IF TrimSpace(rs[i].OpenID) = <<>> THEN "recipient openid is required"
    ELSE IF rs[i].Name \in seen THEN "duplicate recipient name"
    ELSE RecipientError(rs, i + 1, seen \cup {rs[i].Name})

\* part_001 54-108: the error ValidateAndSetConfig returns ("none" = nil).
ConfigErrorLax(c) ==
    IF TrimSpace(c.AppID) = <<>> THEN "AppID is required"
    ELSE IF TrimSpace(c.AppSecret) = <<>> THEN "AppSecret is required"
    ELSE IF TrimSpace(c.TemplateID) = <<>> THEN "TemplateID is required"
    ELSE IF ~HasPrefix(c.AppID, <<"w", "x">>) THEN "invalid AppID format"
    ELSE IF TrimSpace(c.OpenID) = <<>> /\ Len(c.Recipients) = 0
         THEN "at least one OpenID or Recipient is required"
    ELSE "none"
ConfigError(c) ==
    IF TrimSpace(c.AppID) = <<>> THEN "AppID is required"
    ELSE IF TrimSpace(c.AppSecret) = <<>> THEN "AppSecret is required"
    ELSE IF TrimSpace(c.TemplateID) = <<>> THEN "TemplateID is required"
    ELSE IF ~HasPrefix(c.AppID, <<"w", "x">>) THEN "invalid AppID format"
    ELSE IF TrimSpace(c.OpenID) = <<>> /\ Len(c.Recipients) = 0
         THEN "at least one OpenID or Recipient is required"
    ELSE IF RecipientError(c.Recipients, 1, {}) # "none"
         THEN RecipientError(c.Recipients, 1, {})
    ELSE IF \E i \in 1..Len(c.MessageRoutes) : TrimSpace(c.MessageRoutes[i]) = <<>>
         THEN "message_routes path is required"
    ELSE IF Len(c.MessageRoutes) > 0 /\ TrimSpace(c.ClientToken) = <<>>
         THEN "client_token is required"
    ELSE "none"

\* part_001 95-97, 110-112: what is installed: the candidate, with the
\* default JumpURL when it gave none.
Installed(c) ==
    [AppID |-> c.AppID, AppSecret |-> c.AppSecret, TemplateID |-> c.TemplateID,
     JumpURL |-> IF TrimSpace(c.JumpURL) = <<>> THEN jumpDefault ELSE c.JumpURL,
     OpenID |-> c.OpenID, Recipients |-> c.Recipients, ClientToken |-> c.ClientToken]

NoRet == [op |-> "none", err |-> "none", cand |-> NoCand]

\* A plugin that its host has not called yet.
NoFrame == [decodes |-> FALSE, appid |-> 0]
NoResolved == [appID |-> 0, priority |-> 0, result |-> <<>>, called |-> FALSE]

\* wechat.go 42-46, 161: a new TokenCache: no token, the zero time, and an
\* RWMutex held by no reader and no writer.
EmptyCache == [Token |-> "", ExpiresAt |-> 0, readers |-> 0, writer |-> FALSE]

\* A getAccessToken call that has made no lock call yet: r, w and d are the
\* instances RLock, Lock and the deferred Unlock were called on.
NoHold == [r |-> 0, w |-> 0, d |-> 0]

\* main.go 21-27: tokenCache is nil in a new plugin instance.
NoCache ==
    /\ tokenCache = 0
    /\ caches = <<>>
    /\ held = [c \in Callers |-> NoHold]
    /\ fatal = FALSE

\* wechat.go 161: the TokenCache of the one Enable call made so far.
OneCache ==
    /\ tokenCache = 1
    /\ caches = <<EmptyCache>>
    /\ held = [c \in Callers |-> NoHold]
    /\ fatal = FALSE

LifeIdle ==
    /\ lastCall = NoRet
    /\ stream = 0
    /\ listeners = <<>>
    /\ resolution = NoResolved
    /\ lastFrame = NoFrame
    /\ finished = <<>>
    /\ hostDown = FALSE
    /\ IF enabled THEN OneCache ELSE NoCache

----------------------------------------------------------------------------
(* Delivery: getAllOpenIDs, sendToMultiple, sendToWeChat, /send and /test *)

\* OpenIDs are strings, written as sequences of characters.
idShort == <<"o", "s", "h", "o", "r", "t", "8", "8">>
idA == <<"o", "A", "1", "b", "X", "C", "3", "d", "4">>
idB == <<"o", "A", "1", "b", "Y", "C", "3", "d", "4", "Z">>
OpenIDs == {idShort, idA}
Stars == <<"*", "*", "*", "*">>

\* wechat.go 542-547
maskString(s) ==
    IF Len(s) <= 8 THEN Stars
    ELSE SubSeq(s, 1, 4) \o Stars \o SubSeq(s, Len(s) - 3, Len(s))

\* The configurations ValidateAndSetConfig installs, as far as delivery reads
\* them: a legacy OpenID or at least one recipient (part_001 71-77).
RecipientNames == <<nameA, nameB, nameC>>
BaseConfig ==
    [NoConfig EXCEPT !.AppID = wxApp, !.AppSecret = secret, !.TemplateID = template,
                     !.JumpURL = jumpDefault]
Configs ==
    {c \in {[BaseConfig EXCEPT
               !.OpenID = legacy,
               !.Recipients = [i \in 1..Len(ids) |->
                                 [Name |-> RecipientNames[i], OpenID |-> ids[i]]]] :
             legacy \in {<<>>, idB}, ids \in SeqsUpTo(OpenIDs, MaxRecipients)} :
        c.OpenID # <<>> \/ Len(c.Recipients) > 0}

\* wechat.go 363-376
getAllOpenIDs(cf) ==
    IF Len(cf.Recipients) > 0
    THEN [i \in 1..Len(cf.Recipients) |-> cf.Recipients[i].OpenID]
    ELSE IF cf.OpenID # <<>> THEN <<cf.OpenID>>
    ELSE <<>>

\* wechat.go 400
successCountAll(n, errs) == n
successCount(n, errs) == n - Len(errs)

\* wechat.go 226-236 and 250-261: the answer of /send and /test.
RespondFullOnly(errs, n) ==
    IF Len(errs) > 0 /\ Len(errs) = n
    THEN [status |-> 500, success |-> FALSE, failed |-> Len(errs), total |-> n,
          errors |-> <<>>]
    ELSE [status |-> 200, success |-> TRUE, failed |-> 0, total |-> n,
          errors |-> <<>>]
Respond(errs, n) ==
    IF Len(errs) > 0
    THEN [status |-> 500, success |-> FALSE, failed |-> Len(errs), total |-> n,
          errors |-> <<>>]
    ELSE [status |-> 200, success |-> TRUE, failed |-> 0, total |-> n,
          errors |-> <<>>]

NoResp == [status |-> 0, success |-> FALSE, failed |-> 0, total |-> 0, errors |-> <<>>]
NoJob == [pc |-> "idle", openIDs |-> <<>>, errs |-> <<>>, wg |-> 0]

\* How the POST to message/template/send can end (wechat.go 454-472).
PostOutcomes == {"ok", "request", "errcode"}

\* wechat.go 204-225 and 240-249: a request arrives. A disabled plugin answers
\* 503, a /send body that does not bind answers 400; otherwise sendToMultiple
\* starts one goroutine per OpenID (wechat.go 386-396).
HandleRequest(route, bodyOk) ==
    /\ job.pc = "idle"
    /\ deliveries < MaxDeliveries
    /\ deliveries' = deliveries + 1
    /\ IF ~enabled
       THEN /\ reply' = [NoResp EXCEPT !.status = 503]
            /\ UNCHANGED <<job, pc, outcome, call>>
       ELSE IF route = "send" /\ ~bodyOk
       THEN /\ reply' = [NoResp EXCEPT !.status = 400]
            /\ UNCHANGED <<job, pc, outcome, call>>
       ELSE LET ids == getAllOpenIDs(config) IN
            /\ exchanges + Len(ids) <= MaxExchanges
            /\ reply' = NoResp
            /\ job' = [pc |-> "waiting", openIDs |-> ids, errs |-> <<>>,
                       wg |-> Len(ids)]
            /\ pc' = [c \in Callers |-> IF c <= Len(ids) THEN "start" ELSE "idle"]
            /\ outcome' = [c \in Callers |-> "none"]
            /\ call' = [c \in Callers |-> NoCall]
    /\ UNCHANGED <<now, Token, ExpiresAt, rwWriter, rwReaders, exchanges,
                   cacheSeq, lastEx, calls, firstRound>>
    /\ UNCHANGED <<enabled, config, totalSent, totalFail, lastSentAt, lastError,
                   notified, attempts>>
    /\ UNCHANGED <<routerVars, streamVars, lifeVars>>

\* wechat.go 416-421: sendToWeChat starts and calls getAccessToken.
WorkerStart(c) ==
    /\ pc[c] = "start"
    /\ BeginCall(c)
    /\ attempts' = attempts + 1
    /\ UNCHANGED <<now, Token, ExpiresAt, rwWriter, rwReaders, exchanges,
                   cacheSeq, lastEx, calls>>
    /\ UNCHANGED <<enabled, config, job, totalSent, totalFail, lastSentAt,
                   lastError, notified, outcome, reply, deliveries>>
    /\ UNCHANGED <<routerVars, streamVars, lifeVars>>

\* wechat.go 390-394: a failed attempt appends its error, naming the masked
\* OpenID; then wg.Done.
FinishCancelsOthers(c, cause) ==
    /\ pc' = IF cause = "ok" THEN [pc EXCEPT ![c] = "exited"]
             ELSE [d \in Callers |-> IF d <= Len(job.openIDs) THEN "exited" ELSE pc[d]]
    /\ outcome' = [outcome EXCEPT ![c] = cause]
    /\ job' = [job EXCEPT
                 !.wg = IF cause = "ok" THEN @ - 1 ELSE 0,
                 !.errs = IF cause = "ok" THEN @
                          ELSE Append(@, [openid |-> maskString(job.openIDs[c]),
                                          cause |-> cause])]
Finish(c, cause) ==
    /\ pc' = [pc EXCEPT ![c] = "exited"]
    /\ outcome' = [outcome EXCEPT ![c] = cause]
    /\ job' = [job EXCEPT
                 !.wg = @ - 1,
                 !.errs = IF cause = "ok" THEN @
                          ELSE Append(@, [openid |-> maskString(job.openIDs[c]),
                                          cause |-> cause])]

\* wechat.go 421-454: getAccessToken has returned; on an error the attempt
\* ends, otherwise the push request is sent.
AfterToken(c) ==
    /\ job.pc = "waiting"
    /\ pc[c] = "done"
    /\ IF call[c].kind = "error"
       THEN Finish(c, "token")
       ELSE /\ pc' = [pc EXCEPT ![c] = "post"]
            /\ UNCHANGED <<job, outcome>>
    /\ UNCHANGED <<now, Token, ExpiresAt, rwWriter, rwReaders, call, exchanges,
                   cacheSeq, lastEx, calls, firstRound>>
    /\ UNCHANGED <<enabled, config, totalSent, totalFail, lastSentAt, lastError,
                   notified, attempts, reply, deliveries>>
    /\ UNCHANGED <<routerVars, streamVars, lifeVars>>

\* wechat.go 454-475: the push request ends.
PostDone(c) ==
    /\ pc[c] = "post"
    /\ \E o \in PostOutcomes : Finish(c, o)
    /\ UNCHANGED <<now, Token, ExpiresAt, rwWriter, rwReaders, call, exchanges,
                   cacheSeq, lastEx, calls, firstRound>>
    /\ UNCHANGED <<enabled, config, totalSent, totalFail, lastSentAt, lastError,
                   notified, attempts, reply, deliveries>>
    /\ UNCHANGED <<routerVars, streamVars, lifeVars>>

\* wechat.go 398: wg.Wait returns when every goroutine has called wg.Done.
WaitReturnsAtOnce == TRUE
WaitReturns == job.wg = 0

\* wechat.go 398-412, 86-117: a tally that stops at a failed SendMessage: with
\* the host failing, the record of the successes after the first notification
\* is skipped and the answer reports a failure.
TallyHostChecked ==
    /\ job.pc = "waiting"
    /\ WaitReturns
    /\ LET n == Len(job.openIDs)
           k == Len(job.errs)
           ok == successCount(n, job.errs)
       IN /\ totalFail' = IF k > 0 THEN totalFail + k ELSE totalFail
          /\ lastError' = IF k > 0 THEN <<k, n>> ELSE lastError
          /\ totalSent' = IF ok > 0 /\ ~hostDown THEN totalSent + ok ELSE totalSent
          /\ lastSentAt' = IF ok > 0 /\ ~hostDown THEN now ELSE lastSentAt
          /\ notified' = notified
                         \o (IF k > 0 THEN <<[type |-> "error", count |-> k, total |-> n]>>
                             ELSE <<>>)
                         \o (IF ok > 0 /\ ~hostDown
                             THEN <<[type |-> "delivery", count |-> ok, total |-> n]>>
                             ELSE <<>>)
          /\ reply' = IF hostDown THEN Respond(<<"host">>, n) ELSE Respond(job.errs, n)
    /\ job' = [job EXCEPT !.pc = "idle"]
    /\ pc' = [c \in Callers |-> "idle"]
    /\ UNCHANGED <<now, Token, ExpiresAt, rwWriter, rwReaders, call, exchanges,
                   cacheSeq, lastEx, calls, firstRound>>
    /\ UNCHANGED <<enabled, config, outcome, attempts, deliveries>>
    /\ UNCHANGED <<routerVars, streamVars, lifeVars>>

\* wechat.go 398-412 and 226-236: every goroutine has called wg.Done; the
\* tally, the notifications, and the handler's answer.
Tally ==
    /\ job.pc = "waiting"
    /\ WaitReturns
    /\ LET n == Len(job.openIDs)
           k == Len(job.errs)
           ok == successCount(n, job.errs)
       IN /\ totalFail' = IF k > 0 THEN totalFail + k ELSE totalFail
          /\ lastError' = IF k > 0 THEN <<k, n>> ELSE lastError
          /\ totalSent' = IF ok > 0 THEN totalSent + ok ELSE totalSent
          /\ lastSentAt' = IF ok > 0 THEN now ELSE lastSentAt
          /\ notified' = notified
                         \o (IF k > 0 THEN <<[type |-> "error", count |-> k, total |-> n]>>
                             ELSE <<>>)
                         \o (IF ok > 0 THEN <<[type |-> "delivery", count |-> ok, total |-> n]>>
                             ELSE <<>>)
          /\ reply' = Respond(job.errs, n)
    /\ job' = [job EXCEPT !.pc = "idle"]
    /\ pc' = [c \in Callers |-> "idle"]
    /\ UNCHANGED <<now, Token, ExpiresAt, rwWriter, rwReaders, call, exchanges,
                   cacheSeq, lastEx, calls, firstRound>>
    /\ UNCHANGED <<enabled, config, outcome, attempts, deliveries>>
    /\ UNCHANGED <<routerVars, streamVars, lifeVars>>

SendIdle ==
    /\ enabled = FALSE
    /\ config = NoConfig
    /\ job = NoJob
    /\ totalSent = 0
    /\ totalFail = 0
    /\ lastSentAt = -1
    /\ lastError = <<>>
    /\ notified = <<>>
    /\ outcome = [c \in Callers |-> "none"]
    /\ attempts = 0
    /\ reply = NoResp
    /\ deliveries = 0

\* A plugin with an installed configuration, enabled or not.
SendInit ==
    /\ TokenInit
    /\ enabled \in BOOLEAN
    /\ config \in Configs
    /\ job = NoJob
    /\ totalSent = 0
    /\ totalFail = 0
    /\ lastSentAt = -1
    /\ lastError = <<>>
    /\ notified = <<>>
    /\ outcome = [c \in Callers |-> "none"]
    /\ attempts = 0
    /\ reply = NoResp
    /\ deliveries = 0
    /\ RouterIdle
    /\ StreamIdle
    /\ LifeIdle

SendNext ==
    \/ \E route \in {"send", "test"}, bodyOk \in BOOLEAN : HandleRequest(route, bodyOk)
    \/ \E c \in Callers : WorkerStart(c)
    \/ \E c \in Callers : RLock(c)
    \/ \E c \in Callers : FastPath(c)
    \/ \E c \in Callers : Lock(c)
    \/ \E c \in Callers : LockAcquired(c)
    \/ \E c \in Callers : ReCheck(c)
    \/ \E c \in Callers : ExchangeDone(c)
    \/ \E c \in Callers : StoreExpiry(c)
    \/ \E c \in Callers : AfterToken(c)
    \/ \E c \in Callers : PostDone(c)
    \/ Tally

----------------------------------------------------------------------------
(* Lifecycle: ValidateAndSetConfig, Enable, Disable (part_001 54-115,       *)
(* wechat.go 152-189), and the deliveries of a plugin seen from its host.   *)

recA == [Name |-> nameA, OpenID |-> idA]
recB == [Name |-> nameB, OpenID |-> idShort]
recBlankName == [Name |-> Blank, OpenID |-> idA]
recNoOpenID == [Name |-> nameC, OpenID |-> <<>>]
recA2 == [Name |-> nameA, OpenID |-> idShort]

\* The configurations a host may pass: every combination of a good and a bad
\* value of each field.
Candidates ==
    [AppID : {<<>>, wxApp, ghApp},
     AppSecret : {Blank, secret},
     TemplateID : {<<>>, template},
     JumpURL : {<<>>, jumpOwn},
     OpenID : {<<>>, idB},
     Recipients : {<<>>, <<recA>>, <<recA, recB>>, <<recBlankName>>,
                   <<recA, recNoOpenID>>, <<recA, recB, recA2>>},
     ClientToken : {<<>>, clientTok},
     MessageRoutes : {<<>>, <<MessagesOne>>, <<MessagesOne, Blank>>, <<Wild>>}]

\* part_001 54-115
ValidateAndSetConfig(c) ==
    /\ lastCall' = [op |-> "ValidateAndSetConfig", err |-> ConfigError(c), cand |-> c]
    /\ IF ConfigError(c) = "none"
       THEN config' = Installed(c) /\ routes' = c.MessageRoutes
       ELSE UNCHANGED <<config, routes>>
    /\ UNCHANGED <<stream, listeners, router, matched>>
    /\ UNCHANGED <<enabled, job, totalSent, totalFail, lastSentAt, lastError,
                   notified, outcome, attempts, reply, deliveries>>
    /\ UNCHANGED <<tokenVars, streamVars, resolution, lastFrame, finished, hostDown, cacheVars>>

\* wechat.go 164: the condition under which Enable starts the listener.
StartsStreamAlways(cf, rs) == TRUE
StartsStream(cf, rs) == cf.ClientToken # <<>> /\ Len(rs) > 0

\* wechat.go 72-82: NotifyStatus.
StatusNotice(status) == [type |-> status, count |-> 0, total |-> 0]

\* The calls of Enable and Disable, counted by their notices and bounded.
MayNotify ==
    Cardinality({i \in 1..Len(notified) :
                   notified[i].type \in {"enabled", "disabled"}}) < MaxNotices

\* wechat.go 152-173. The new TokenCache is empty and its lock is free; the
\* listener is created with the router of the routes and Start is started.
EnableResetsStats ==
    /\ MayNotify
    /\ config # NoConfig
    /\ lastCall' = [NoRet EXCEPT !.op = "Enable"]
    /\ enabled' = TRUE
    /\ totalSent' = 0
    /\ totalFail' = 0
    /\ notified' = Append(notified, StatusNotice("enabled"))
    /\ UNCHANGED <<Token, ExpiresAt, rwWriter, rwReaders, cacheSeq, lastEx, listeners, stream>>
    /\ UNCHANGED <<now, pc, call, exchanges, calls, firstRound>>
    /\ UNCHANGED <<config, job, lastSentAt, lastError, outcome, attempts, reply, deliveries>>
    /\ UNCHANGED <<routerVars, streamVars, resolution, lastFrame, finished, hostDown, cacheVars>>
Enable ==
    /\ MayNotify
    /\ IF config = NoConfig
       THEN /\ lastCall' = [NoRet EXCEPT !.op = "Enable", !.err = "plugin not configured"]
            /\ UNCHANGED <<enabled, Token, ExpiresAt, rwWriter, rwReaders, cacheSeq,
                           lastEx, listeners, stream, notified, tokenCache, caches>>
       ELSE /\ lastCall' = [NoRet EXCEPT !.op = "Enable"]
            /\ enabled' = TRUE
            /\ Token' = ""
            /\ ExpiresAt' = 0
            /\ rwWriter' = 0
            /\ rwReaders' = {}
            /\ cacheSeq' = 0
            /\ lastEx' = "none"
            /\ caches' = Append(caches, EmptyCache)
            /\ tokenCache' = Len(caches) + 1
            /\ IF StartsStream(config, routes)
               THEN /\ listeners' = Append(listeners,
                                           [router |-> NewMessageRouter(routes),
                                            running |-> TRUE])
                    /\ stream' = Len(listeners) + 1
               ELSE UNCHANGED <<listeners, stream>>
            /\ notified' = Append(notified, StatusNotice("enabled"))
    /\ UNCHANGED <<now, pc, call, exchanges, calls, firstRound>>
    /\ UNCHANGED <<config, job, totalSent, totalFail, lastSentAt, lastError,
                   outcome, attempts, reply, deliveries>>
    /\ UNCHANGED <<routerVars, streamVars, resolution, lastFrame, finished, hostDown, held, fatal>>

\* wechat.go 175-189. Stop returns when the Start loop of the listener has
\* exited (stream.go 129-139).
Disable ==
    /\ MayNotify
    /\ lastCall' = [NoRet EXCEPT !.op = "Disable"]
    /\ IF stream # 0
       THEN /\ listeners' = [listeners EXCEPT ![stream].running = FALSE]
            /\ stream' = 0
       ELSE UNCHANGED <<listeners, stream>>
    /\ enabled' = FALSE
    /\ notified' = Append(notified, StatusNotice("disabled"))
    /\ UNCHANGED <<config, job, totalSent, totalFail, lastSentAt, lastError,
                   outcome, attempts, reply, deliveries>>
    /\ UNCHANGED <<tokenVars, routerVars, streamVars, resolution, lastFrame, finished, hostDown, cacheVars>>

----------------------------------------------------------------------------
(* getAccessToken with the TokenCache instances told apart: every statement  *)
(* of wechat.go 478-540 reads the field p.tokenCache again, without p.mu.     *)

\* sync.RWMutex of instance i: RLock is granted while no writer holds it,
\* Lock while nobody holds it.
MayRLock(i) == ~caches[i].writer
MayLock(i) == ~caches[i].writer /\ caches[i].readers = 0

\* The variables no statement of getAccessToken changes.
CallerFrame ==
    /\ UNCHANGED <<now, Token, ExpiresAt, rwWriter, rwReaders, call, exchanges,
                   cacheSeq, lastEx, firstRound>>
    /\ UNCHANGED <<sendVars, routerVars, streamVars>>
    /\ UNCHANGED <<lastCall, stream, listeners, resolution, lastFrame, finished,
                   hostDown, tokenCache>>

\* wechat.go 479: a delivery of the enabled plugin calls getAccessToken, which
\* calls RLock on the instance p.tokenCache points to.
CacheRLock(c) ==
    /\ ~fatal
    /\ enabled
    /\ pc[c] = "idle"
    /\ calls < MaxCalls
    /\ calls' = calls + 1
    /\ pc' = [pc EXCEPT ![c] = "rlock"]
    /\ held' = [held EXCEPT ![c] = [NoHold EXCEPT !.r = tokenCache]]
    /\ UNCHANGED <<caches, fatal>>
    /\ CallerFrame

\* wechat.go 479: RLock returns.
CacheRLocked(c) ==
    /\ ~fatal
    /\ pc[c] = "rlock"
    /\ MayRLock(held[c].r)
    /\ caches' = [caches EXCEPT ![held[c].r].readers = @ + 1]
    /\ pc' = [pc EXCEPT ![c] = "rlocked"]
    /\ UNCHANGED <<held, fatal, calls>>
    /\ CallerFrame

\* wechat.go 480-485: the check of the instance p.tokenCache points to now,
\* and RUnlock on it. RUnlock of an RWMutex no reader holds is a fatal error.
CacheRUnlock(c) ==
    /\ ~fatal
    /\ pc[c] = "rlocked"
    /\ IF caches[tokenCache].readers = 0
       THEN /\ fatal' = TRUE
            /\ UNCHANGED <<caches, pc>>
       ELSE /\ caches' = [caches EXCEPT ![tokenCache].readers = @ - 1]
            /\ pc' = [pc EXCEPT ![c] =
                         IF FastHit(caches[tokenCache].Token,
                                    caches[tokenCache].ExpiresAt, now)
                         THEN "idle" ELSE "lock"]
            /\ UNCHANGED fatal
    /\ UNCHANGED <<held, calls>>
    /\ CallerFrame

\* wechat.go 487: Lock is called on the instance p.tokenCache points to.
CacheLock(c) ==
    /\ ~fatal
    /\ pc[c] = "lock"
    /\ held' = [held EXCEPT ![c].w = tokenCache]
    /\ pc' = [pc EXCEPT ![c] = "wwait"]
    /\ UNCHANGED <<caches, fatal, calls>>
    /\ CallerFrame

\* wechat.go 487: Lock returns.
CacheLocked(c) ==
    /\ ~fatal
    /\ pc[c] = "wwait"
    /\ MayLock(held[c].w)
    /\ caches' = [caches EXCEPT ![held[c].w].writer = TRUE]
    /\ pc' = [pc EXCEPT ![c] = "locked"]
    /\ UNCHANGED <<held, fatal, calls>>
    /\ CallerFrame

\* wechat.go 488-492: the defer statement evaluates p.tokenCache for the
\* Unlock it registers; then the check again.
CacheDefer(c) ==
    /\ ~fatal
    /\ pc[c] = "locked"
    /\ held' = [held EXCEPT ![c].d = tokenCache]
    /\ pc' = [pc EXCEPT ![c] =
                 IF LockedHit(caches[tokenCache].Token, caches[tokenCache].ExpiresAt, now)
                 THEN "return" ELSE "exchange"]
    /\ UNCHANGED <<caches, fatal, calls>>
    /\ CallerFrame

\* wechat.go 494-534: the exchange with the WeChat API returns.
CacheExchanged(c, ok) ==
    /\ ~fatal
    /\ pc[c] = "exchange"
    /\ pc' = [pc EXCEPT ![c] = IF ok THEN "store" ELSE "return"]
    /\ UNCHANGED <<caches, held, fatal, calls>>
    /\ CallerFrame

\* wechat.go 536: the token is stored in the instance p.tokenCache points to.
CacheStoreToken(c) ==
    /\ ~fatal
    /\ pc[c] = "store"
    /\ caches' = [caches EXCEPT ![tokenCache].Token = "tok"]
    /\ pc' = [pc EXCEPT ![c] = "expiry"]
    /\ UNCHANGED <<held, fatal, calls>>
    /\ CallerFrame

\* wechat.go 537: and the expiry.
CacheStoreExpiry(c) ==
    /\ ~fatal
    /\ pc[c] = "expiry"
    /\ caches' = [caches EXCEPT ![tokenCache].ExpiresAt = now + 600]
    /\ pc' = [pc EXCEPT ![c] = "return"]
    /\ UNCHANGED <<held, fatal, calls>>
    /\ CallerFrame

\* wechat.go 488, 539: getAccessToken returns and the deferred Unlock runs on
\* the instance the defer statement evaluated. Unlock of an RWMutex no writer
\* holds is a fatal error.
CacheReturn(c) ==
    /\ ~fatal
    /\ pc[c] = "return"
    /\ IF ~caches[held[c].d].writer
       THEN /\ fatal' = TRUE
            /\ UNCHANGED <<caches, pc>>
       ELSE /\ caches' = [caches EXCEPT ![held[c].d].writer = FALSE]
            /\ pc' = [pc EXCEPT ![c] = "idle"]
            /\ UNCHANGED fatal
    /\ UNCHANGED <<held, calls>>
    /\ CallerFrame

\* Deliveries in getAccessToken while the host enables and disables the plugin.
SwapNext ==
    \/ ~fatal /\ Enable
    \/ ~fatal /\ Disable
    \/ \E c \in Callers : CacheRLock(c)
    \/ \E c \in Callers : CacheRLocked(c)
    \/ \E c \in Callers : CacheRUnlock(c)
    \/ \E c \in Callers : CacheLock(c)
    \/ \E c \in Callers : CacheLocked(c)
    \/ \E c \in Callers : CacheDefer(c)
    \/ \E c \in Callers, ok \in BOOLEAN : CacheExchanged(c, ok)
    \/ \E c \in Callers : CacheStoreToken(c)
    \/ \E c \in Callers : CacheStoreExpiry(c)
    \/ \E c \in Callers : CacheReturn(c)

\* The errors of the attempts at the positions in fails, in list order.
RECURSIVE ErrorsOf(_, _, _)
ErrorsOf(ids, fails, i) ==
    IF i > Len(ids) THEN <<>>
    ELSE (IF i \in fails THEN <<[openid |-> maskString(ids[i]), cause |-> "request"]>>
          ELSE <<>>) \o ErrorsOf(ids, fails, i + 1)

\* wechat.go 401-409: the notifications of one sendToMultiple call with k
\* failed and ok successful attempts out of n.
NoticesAlways(k, ok, n) ==
    <<[type |-> "error", count |-> k, total |-> n],
      [type |-> "delivery", count |-> ok, total |-> n]>>
Notices(k, ok, n) ==
    (IF k > 0 THEN <<[type |-> "error", count |-> k, total |-> n]>> ELSE <<>>)
    \o (IF ok > 0 THEN <<[type |-> "delivery", count |-> ok, total |-> n]>> ELSE <<>>)

\* wechat.go 379-413, 416-476: sendToMultiple from its call to its return, the
\* attempts at the positions in fails failing. An attempt that succeeds has
\* used a token: the cached one, or with none cached the one that an exchange
\* of this call stored. The interleavings of the attempts are those of
\* SendNext.
SendAll(ids, fails) ==
    LET n == Len(ids)
        errs == ErrorsOf(ids, fails, 1)
        k == Len(errs)
        ok == successCount(n, errs)
    IN /\ attempts' = attempts + n
       /\ totalFail' = IF k > 0 THEN totalFail + k ELSE totalFail
       /\ lastError' = IF k > 0 THEN <<k, n>> ELSE lastError
       /\ totalSent' = IF ok > 0 THEN totalSent + ok ELSE totalSent
       /\ lastSentAt' = IF ok > 0 THEN now ELSE lastSentAt
       /\ notified' = notified \o Notices(k, ok, n)
       /\ IF ok > 0 /\ ~FastHit(Token, ExpiresAt, now)
          THEN /\ Token' = "tok"
               /\ ExpiresAt' = now + 600
               /\ exchanges' = exchanges + 1
               /\ cacheSeq' = exchanges + 1
               /\ lastEx' = "ok"
          ELSE UNCHANGED <<Token, ExpiresAt, exchanges, cacheSeq, lastEx>>

\* wechat.go 204-236, 240-261: handlers that reject a request only while no
\* configuration is installed.
ServeRequestUnlessUnconfigured(route, bodyOk, fails) ==
    /\ deliveries < MaxServed
    /\ deliveries' = deliveries + 1
    /\ lastCall' = [NoRet EXCEPT !.op = route]
    /\ IF config = NoConfig
       THEN /\ fails = {}
            /\ reply' = [NoResp EXCEPT !.status = 503]
            /\ UNCHANGED <<attempts, totalFail, lastError, totalSent, lastSentAt,
                           notified, Token, ExpiresAt, exchanges, cacheSeq, lastEx>>
       ELSE IF route = "send" /\ ~bodyOk
       THEN /\ fails = {}
            /\ reply' = [NoResp EXCEPT !.status = 400]
            /\ UNCHANGED <<attempts, totalFail, lastError, totalSent, lastSentAt,
                           notified, Token, ExpiresAt, exchanges, cacheSeq, lastEx>>
       ELSE /\ fails \subseteq 1..Len(getAllOpenIDs(config))
            /\ SendAll(getAllOpenIDs(config), fails)
            /\ reply' = Respond(ErrorsOf(getAllOpenIDs(config), fails, 1),
                                Len(getAllOpenIDs(config)))
    /\ UNCHANGED <<now, rwWriter, rwReaders, pc, call, calls, firstRound>>
    /\ UNCHANGED <<enabled, config, job, outcome>>
    /\ UNCHANGED <<stream, listeners>>
    /\ UNCHANGED <<routerVars, streamVars, resolution, lastFrame, finished, hostDown, cacheVars>>

\* wechat.go 204-236, 240-261: a /send or /test request, from its arrival to
\* its answer.
ServeRequest(route, bodyOk, fails) ==
    /\ deliveries < MaxServed
    /\ deliveries' = deliveries + 1
    /\ lastCall' = [NoRet EXCEPT !.op = route]
    /\ IF ~enabled
       THEN /\ fails = {}
            /\ reply' = [NoResp EXCEPT !.status = 503]
            /\ UNCHANGED <<attempts, totalFail, lastError, totalSent, lastSentAt,
                           notified, Token, ExpiresAt, exchanges, cacheSeq, lastEx>>
       ELSE IF route = "send" /\ ~bodyOk
       THEN /\ fails = {}
            /\ reply' = [NoResp EXCEPT !.status = 400]
            /\ UNCHANGED <<attempts, totalFail, lastError, totalSent, lastSentAt,
                           notified, Token, ExpiresAt, exchanges, cacheSeq, lastEx>>
       ELSE /\ fails \subseteq 1..Len(getAllOpenIDs(config))
            /\ SendAll(getAllOpenIDs(config), fails)
            /\ reply' = Respond(ErrorsOf(getAllOpenIDs(config), fails, 1),
                                Len(getAllOpenIDs(config)))
    /\ UNCHANGED <<now, rwWriter, rwReaders, pc, call, calls, firstRound>>
    /\ UNCHANGED <<enabled, config, job, outcome>>
    /\ UNCHANGED <<stream, listeners>>
    /\ UNCHANGED <<routerVars, streamVars, resolution, lastFrame, finished, hostDown, cacheVars>>

\* stream.go 81-88, 217-230: a listener that matches every event against the
\* routes of the configuration installed now.
StreamEventNewRoutes(l, appid, fails) ==
    /\ l \in 1..Len(listeners)
    /\ listeners[l].running
    /\ deliveries < MaxServed
    /\ deliveries' = deliveries + 1
    /\ lastCall' = [NoRet EXCEPT !.op = "event"]
    /\ matched' = [appid |-> appid, result |-> Match(NewMessageRouter(routes), appid),
                   called |-> TRUE]
    /\ IF Match(NewMessageRouter(routes), appid) /\ Len(getAllOpenIDs(config)) > 0
       THEN /\ fails \subseteq 1..Len(getAllOpenIDs(config))
            /\ SendAll(getAllOpenIDs(config), fails)
       ELSE /\ fails = {}
            /\ UNCHANGED <<attempts, totalFail, lastError, totalSent, lastSentAt,
                           notified, Token, ExpiresAt, exchanges, cacheSeq, lastEx>>
    /\ UNCHANGED <<now, rwWriter, rwReaders, pc, call, calls, firstRound>>
    /\ UNCHANGED <<enabled, config, job, outcome, reply>>
    /\ UNCHANGED <<stream, listeners, routes, router>>
    /\ lastFrame' = [decodes |-> TRUE, appid |-> appid]
    /\ UNCHANGED <<streamVars, resolution, finished, hostDown, cacheVars>>

\* stream.go 217-230, 235-253: listener l reads an event of application appid;
\* a matching event is forwarded, and skipped when no recipient is configured.
StreamEvent(l, appid, fails) ==
    /\ l \in 1..Len(listeners)
    /\ listeners[l].running
    /\ deliveries < MaxServed
    /\ deliveries' = deliveries + 1
    /\ lastCall' = [NoRet EXCEPT !.op = "event"]
    /\ matched' = [appid |-> appid, result |-> Match(listeners[l].router, appid),
                   called |-> TRUE]
    /\ IF Match(listeners[l].router, appid) /\ Len(getAllOpenIDs(config)) > 0
       THEN /\ fails \subseteq 1..Len(getAllOpenIDs(config))
            /\ SendAll(getAllOpenIDs(config), fails)
       ELSE /\ fails = {}
            /\ UNCHANGED <<attempts, totalFail, lastError, totalSent, lastSentAt,
                           notified, Token, ExpiresAt, exchanges, cacheSeq, lastEx>>
    /\ UNCHANGED <<now, rwWriter, rwReaders, pc, call, calls, firstRound>>
    /\ UNCHANGED <<enabled, config, job, outcome, reply>>
    /\ UNCHANGED <<stream, listeners, routes, router>>
    /\ lastFrame' = [decodes |-> TRUE, appid |-> appid]
    /\ UNCHANGED <<streamVars, resolution, finished, hostDown, cacheVars>>

\* wechat.go 379-413: sendToMultiple called with the list ids. job keeps the
\* list it was given and the errors it returned.
sendToMultiple(ids, fails) ==
    /\ deliveries < MaxDeliveries
    /\ deliveries' = deliveries + 1
    /\ fails \subseteq 1..Len(ids)
    /\ SendAll(ids, fails)
    /\ lastCall' = [NoRet EXCEPT !.op = "sendToMultiple"]
    /\ job' = [NoJob EXCEPT !.openIDs = ids, !.errs = ErrorsOf(ids, fails, 1)]
    /\ UNCHANGED <<now, rwWriter, rwReaders, pc, call, calls, firstRound>>
    /\ UNCHANGED <<enabled, config, outcome, reply>>
    /\ UNCHANGED <<stream, listeners>>
    /\ UNCHANGED <<routerVars, streamVars, resolution, lastFrame, finished, hostDown, cacheVars>>

\* stream.go 235-253: forwardToWeChat for an event that matched. With no
\* OpenID configured it returns before sendToMultiple.
forwardToWeChat(fails) ==
    /\ deliveries < MaxDeliveries
    /\ deliveries' = deliveries + 1
    /\ lastCall' = [NoRet EXCEPT !.op = "forwardToWeChat"]
    /\ IF Len(getAllOpenIDs(config)) = 0
       THEN /\ fails = {}
            /\ job' = NoJob
            /\ UNCHANGED <<attempts, totalFail, lastError, totalSent, lastSentAt,
                           notified, Token, ExpiresAt, exchanges, cacheSeq, lastEx>>
       ELSE /\ fails \subseteq 1..Len(getAllOpenIDs(config))
            /\ SendAll(getAllOpenIDs(config), fails)
            /\ job' = [NoJob EXCEPT !.openIDs = getAllOpenIDs(config),
                                    !.errs = ErrorsOf(getAllOpenIDs(config), fails, 1)]
    /\ UNCHANGED <<now, rwWriter, rwReaders, pc, call, calls, firstRound>>
    /\ UNCHANGED <<enabled, config, outcome, reply>>
    /\ UNCHANGED <<stream, listeners>>
    /\ UNCHANGED <<routerVars, streamVars, resolution, lastFrame, finished, hostDown, cacheVars>>

\* The two functions called with every list and configuration, the empty list
\* and the configuration without recipients included.
DeliverNext ==
    \/ \E ids \in SeqsUpTo(OpenIDs, MaxRecipients), fails \in SUBSET (1..MaxRecipients) :
          sendToMultiple(ids, fails)
    \/ \E fails \in SUBSET (1..MaxRecipients) : forwardToWeChat(fails)

----------------------------------------------------------------------------
(* Routing variant: Route, RouteMatch and ValidateAndSetConfig of config.go, *)
(* and resolveRecipients as the specification describes it.                  *)

routeName == <<"r">>
jumpRouting == <<"h", "z", "z">>

\* config.go 15-25: a Route. AppID is the set of the listed ids, MinPriority
\* is <<>> for nil and <<p>> for a pointer to p, Recipients are names.
ruleAll == [Name |-> routeName, AppID |-> {}, MinPriority |-> <<>>,
            Recipients |-> <<nameA>>]
ruleNoName == [ruleAll EXCEPT !.Name = Blank]
ruleNoRecipients == [ruleAll EXCEPT !.Recipients = <<>>]
ruleUnknown == [ruleAll EXCEPT !.AppID = {1}, !.Recipients = <<nameA, nameC>>]
ruleUrgent == [ruleAll EXCEPT !.MinPriority = <<5>>, !.Recipients = <<nameB, nameA>>]

\* config.go 28-40: the configurations a host may pass to the routing variant.
RoutingCandidates ==
    [AppID : {wxApp, ghApp},
     AppSecret : {secret},
     TemplateID : {<<>>, template},
     JumpURL : {<<>>, jumpOwn},
     OpenID : {<<>>, idB},
     Recipients : {<<>>, <<recA, recB>>, <<recA, recB, recA2>>},
     Routes : {<<>>, <<ruleAll>>, <<ruleUrgent, ruleAll>>, <<ruleAll, ruleNoName>>,
               <<ruleNoRecipients>>, <<ruleUrgent, ruleUnknown>>}]

\* config.go 66-78: the names of the recipients seen by the loop.
recipientNames(c) == {c.Recipients[i].Name : i \in 1..Len(c.Recipients)}

\* config.go 94-107
RECURSIVE RouteError(_, _, _)
RouteError(rs, i, names) ==
    IF i > Len(rs) THEN "none"
    ELSE IF TrimSpace(rs[i].Name) = <<>> THEN "route name is required"
    ELSE IF Len(rs[i].Recipients) = 0 THEN "at least one recipient is required"
    ELSE IF \E k \in 1..Len(rs[i].Recipients) : rs[i].Recipients[k] \notin names
    THEN "unknown recipient"
    ELSE RouteError(rs, i + 1, names)

\* config.go 54-108
RoutingConfigError(c) ==
    IF TrimSpace(c.AppID) = <<>> THEN "AppID is required"
    ELSE IF TrimSpace(c.AppSecret) = <<>> THEN "AppSecret is required"
    ELSE IF TrimSpace(c.TemplateID) = <<>> THEN "TemplateID is required"
    ELSE IF ~HasPrefix(c.AppID, <<"w", "x">>) THEN "invalid AppID format"
    ELSE IF TrimSpace(c.OpenID) = <<>> /\ Len(c.Recipients) = 0
    THEN "at least one OpenID or Recipient is required"
    ELSE IF RecipientError(c.Recipients, 1, {}) # "none"
    THEN RecipientError(c.Recipients, 1, {})
    ELSE RouteError(c.Routes, 1, recipientNames(c))

\* config.go 109-115
InstalledRouting(c) ==
    [c EXCEPT !.JumpURL = IF TrimSpace(@) = <<>> THEN jumpRouting ELSE @]

\* config.go 54-118
ValidateAndSetRoutingConfig(c) ==
    /\ lastCall' = [op |-> "ValidateAndSetConfig", err |-> RoutingConfigError(c),
                    cand |-> c]
    /\ IF RoutingConfigError(c) = "none"
       THEN config' = InstalledRouting(c)
       ELSE UNCHANGED config
    /\ UNCHANGED <<stream, listeners, resolution, lastFrame, finished, hostDown, cacheVars,
                   routerVars>>
    /\ UNCHANGED <<enabled, job, totalSent, totalFail, lastSentAt, lastError,
                   notified, outcome, attempts, reply, deliveries>>
    /\ UNCHANGED <<tokenVars, streamVars>>

\* A rule matches when its application ids are none or contain the event's,
\* and its minimum priority is unset or at most the event's priority.
RuleMatchesEither(r, appID, priority) ==
    \/ r.AppID = {} \/ appID \in r.AppID
    \/ r.MinPriority = <<>> \/ priority >= r.MinPriority[1]
RuleMatches(r, appID, priority) ==
    /\ r.AppID = {} \/ appID \in r.AppID
    /\ r.MinPriority = <<>> \/ priority >= r.MinPriority[1]

\* The address of the recipient called name.
RECURSIVE AddressOf(_, _, _)
AddressOf(recipients, name, i) ==
    IF i > Len(recipients) THEN <<>>
    ELSE IF recipients[i].Name = name THEN <<recipients[i].OpenID>>
    ELSE AddressOf(recipients, name, i + 1)

\* The names of a rule mapped to addresses, in the rule's order.
RECURSIVE AddressesOf(_, _, _)
AddressesOf(recipients, names, i) ==
    IF i > Len(names) THEN <<>>
    ELSE AddressOf(recipients, names[i], 1) \o AddressesOf(recipients, names, i + 1)

\* The rules from the i-th on, in declared order: the first that matches
\* decides, and when none matches the result is empty.
RECURSIVE resolveFrom(_, _, _, _)
resolveFrom(cf, appID, priority, i) ==
    IF i > Len(cf.Routes) THEN <<>>
    ELSE IF RuleMatches(cf.Routes[i], appID, priority)
    THEN AddressesOf(cf.Recipients, cf.Routes[i].Recipients, 1)
    ELSE resolveFrom(cf, appID, priority, i + 1)

\* Without rules every configured recipient receives the event.
resolveRecipients(cf, appID, priority) ==
    IF Len(cf.Routes) = 0 THEN getAllOpenIDs(cf)
    ELSE resolveFrom(cf, appID, priority, 1)

\* resolveRecipients is called for an event.
Resolve(appID, priority) ==
    /\ resolution' = [appID |-> appID, priority |-> priority,
                      result |-> resolveRecipients(config, appID, priority),
                      called |-> TRUE]
    /\ UNCHANGED <<lastCall, stream, listeners, lastFrame, finished, hostDown, cacheVars>>
    /\ UNCHANGED <<tokenVars, sendVars, routerVars, streamVars>>

\* The rules resolveRecipients is called with: every combination of an id
\* set, a threshold and a list of names, the empty list included.
RouteRules ==
    [Name : {routeName}, AppID : SUBSET FrameAppIDs, MinPriority : {<<>>, <<5>>},
     Recipients : {<<>>, <<nameA>>, <<nameB, nameA>>}]
RoutingConfigs ==
    {[AppID |-> wxApp, AppSecret |-> secret, TemplateID |-> template,
      JumpURL |-> jumpRouting, OpenID |-> <<>>, Recipients |-> <<recA, recB>>,
      Routes |-> rs] : rs \in SeqsUpTo(RouteRules, MaxRules)}
Priorities == {2, 5, 8}

RoutingNext ==
    \E appID \in FrameAppIDs \cup {3}, priority \in Priorities : Resolve(appID, priority)

\* stream.go 129-139, 235-253: a goroutine that Stop would cancel: it returns
\* only while Stop has not returned.
ForwardDoneUnlessStopped(t, fails) ==
    /\ t \in Running
    /\ stopPc # "returned"
    /\ finished' = Append(finished, [task |-> t, stopped |-> FALSE])
    /\ IF Len(getAllOpenIDs(config)) = 0
       THEN /\ fails = {}
            /\ UNCHANGED <<attempts, totalFail, lastError, totalSent, lastSentAt,
                           notified, Token, ExpiresAt, exchanges, cacheSeq, lastEx>>
       ELSE /\ fails \subseteq 1..Len(getAllOpenIDs(config))
            /\ SendAll(getAllOpenIDs(config), fails)
    /\ UNCHANGED <<now, rwWriter, rwReaders, pc, call, calls, firstRound>>
    /\ UNCHANGED <<enabled, config, job, outcome, reply, deliveries>>
    /\ UNCHANGED <<lastCall, stream, listeners, resolution, lastFrame, hostDown, cacheVars>>
    /\ UNCHANGED <<routerVars, streamVars>>

\* stream.go 235-253: the forwardToWeChat goroutine of the t-th forwarded
\* event returns: it has read the recipients and, unless there is none,
\* called sendToMultiple. finished notes whether Stop had returned by then.
ForwardDone(t, fails) ==
    /\ t \in Running
    /\ finished' = Append(finished, [task |-> t, stopped |-> stopPc = "returned"])
    /\ IF Len(getAllOpenIDs(config)) = 0
       THEN /\ fails = {}
            /\ UNCHANGED <<attempts, totalFail, lastError, totalSent, lastSentAt,
                           notified, Token, ExpiresAt, exchanges, cacheSeq, lastEx>>
       ELSE /\ fails \subseteq 1..Len(getAllOpenIDs(config))
            /\ SendAll(getAllOpenIDs(config), fails)
    /\ UNCHANGED <<now, rwWriter, rwReaders, pc, call, calls, firstRound>>
    /\ UNCHANGED <<enabled, config, job, outcome, reply, deliveries>>
    /\ UNCHANGED <<lastCall, stream, listeners, resolution, lastFrame, hostDown, cacheVars>>
    /\ UNCHANGED <<routerVars, streamVars>>

\* The listener and the goroutines it starts.
ForwardNext ==
    \/ StreamNext
    \/ \E t \in 1..MaxFrames, fails \in SUBSET (1..MaxRecipients) : ForwardDone(t, fails)

\* The configurations the host of LifeNext passes: recipients and a client
\* token without routes; a legacy OpenID, a client token and a route; and a
\* wildcard route without client token, which is rejected.
LifeCandidates ==
    {[NoCand EXCEPT !.AppID = wxApp, !.AppSecret = secret, !.TemplateID = template,
                    !.Recipients = <<recA, recB>>, !.ClientToken = clientTok],
     [NoCand EXCEPT !.AppID = wxApp, !.AppSecret = secret, !.TemplateID = template,
                    !.OpenID = idB, !.ClientToken = clientTok,
                    !.MessageRoutes = <<MessagesOne>>],
     [NoCand EXCEPT !.AppID = wxApp, !.AppSecret = secret, !.TemplateID = template,
                    !.Recipients = <<recA>>, !.MessageRoutes = <<Wild>>]}

\* One call of ValidateAndSetConfig, on any candidate.
ConfigNext ==
    /\ lastCall = NoRet
    /\ \/ /\ "Routes" \notin DOMAIN config
          /\ \E c \in Candidates : ValidateAndSetConfig(c)
       \/ /\ config = NoConfig \/ "Routes" \in DOMAIN config
          /\ \E c \in RoutingCandidates : ValidateAndSetRoutingConfig(c)

LifeNext ==
    \/ \E c \in LifeCandidates : ValidateAndSetConfig(c)
    \/ Enable
    \/ Disable
    \/ \E route \in {"send", "test"}, bodyOk \in BOOLEAN,
          fails \in SUBSET (1..MaxRecipients) : ServeRequest(route, bodyOk, fails)
    \/ \E l \in 1..MaxNotices, appid \in FrameAppIDs,
          fails \in SUBSET (1..MaxRecipients) : StreamEvent(l, appid, fails)

----------------------------------------------------------------------------
(* Specifications *)

\* The token cache alone: goroutines call getAccessToken while time passes.
InitToken == TokenInit /\ SendIdle /\ RouterIdle /\ StreamIdle /\ LifeIdle
TokenSpec == InitToken /\ [][TokenNext]_vars

\* A configured plugin that has not been enabled yet.
SwapInit ==
    /\ TokenInit
    /\ enabled = FALSE
    /\ config \in {Installed(p) : p \in {q \in LifeCandidates :
                                            ConfigError(q) = "none" /\ q.MessageRoutes = <<>>}}
    /\ job = NoJob
    /\ totalSent = 0
    /\ totalFail = 0
    /\ lastSentAt = -1
    /\ lastError = <<>>
    /\ notified = <<>>
    /\ outcome = [c \in Callers |-> "none"]
    /\ attempts = 0
    /\ reply = NoResp
    /\ deliveries = 0
    /\ RouterIdle
    /\ StreamIdle
    /\ LifeIdle

\* getAccessToken calls of deliveries while Enable and Disable are called.
SwapSpec == SwapInit /\ [][SwapNext]_vars

\* Requests to /send and /test on a configured plugin.
SendSpec == SendInit /\ [][SendNext]_vars

\* wechat.go 86-117: the host's SendMessage starts or stops returning an error
\* while a delivery is under way.
HostChanges ==
    /\ job.pc # "idle"
    /\ hostDown' = ~hostDown
    /\ UNCHANGED <<lastCall, stream, listeners, resolution, lastFrame, finished, cacheVars>>
    /\ UNCHANGED <<tokenVars, sendVars, routerVars, streamVars>>

NotifyNext ==
    \/ SendNext
    \/ HostChanges

\* A configured plugin whose host accepts or refuses notifications. The
\* requests served so far moved no counter (/send with a body that does not
\* bind); one more request is followed.
NotifyInit ==
    /\ TokenInit
    /\ enabled \in BOOLEAN
    /\ config \in Configs
    /\ job = NoJob
    /\ totalSent = 0
    /\ totalFail = 0
    /\ lastSentAt = -1
    /\ lastError = <<>>
    /\ notified = <<>>
    /\ outcome = [c \in Callers |-> "none"]
    /\ attempts = 0
    /\ reply = NoResp
    /\ deliveries = MaxDeliveries - 1
    /\ RouterIdle
    /\ StreamIdle
    /\ lastCall = NoRet
    /\ stream = 0
    /\ listeners = <<>>
    /\ resolution = NoResolved
    /\ lastFrame = NoFrame
    /\ finished = <<>>
    /\ hostDown \in BOOLEAN
    /\ IF enabled THEN OneCache ELSE NoCache

\* Requests to /send and /test with a host whose SendMessage may fail.
NotifySpec == NotifyInit /\ [][NotifyNext]_vars

\* The router of every rule list a configuration can hold, and its answers.
RouterInit ==
    /\ TokenInit
    /\ SendIdle
    /\ StreamIdle
    /\ LifeIdle
    /\ routes \in RouteLists
    /\ router = NoRouter
    /\ matched = NoMatch

RouterSpec == RouterInit /\ [][RouterNext]_vars

\* A listener that Enable has created and started, and one call of Stop.
StreamInit ==
    /\ TokenInit
    /\ SendIdle
    /\ LifeIdle
    /\ routes \in StreamRouteLists
    /\ router = Built(NewMessageRouter(routes))
    /\ matched = NoMatch
    /\ sPc = "start"
    /\ backoff = 0
    /\ stopCh = FALSE
    /\ doneCh = FALSE
    /\ conn = "nil"
    /\ sock = "none"
    /\ stopPc = "idle"
    /\ frames = 0
    /\ forwarded = 0
    /\ prevWait = 0
    /\ connectedSince = FALSE
    /\ lateConn = FALSE
    /\ lateForwards = 0

StreamSpec == StreamInit /\ [][StreamNext]_vars

StreamFairSpec == StreamInit /\ [][StreamNext]_vars /\ StreamFairness

\* stream.go 115: the timer of time.After fires when its delay has passed.
TimerFairness == WF_vars(BackoffElapsed)

StreamTimedSpec ==
    StreamInit /\ [][StreamNext]_vars /\ StreamFairness /\ TimerFairness

\* A new plugin instance (main.go 17-25) and the calls of its host.
LifeInit ==
    /\ TokenInit
    /\ SendIdle
    /\ RouterIdle
    /\ StreamIdle
    /\ LifeIdle

LifeSpec == LifeInit /\ [][LifeNext]_vars

\* ValidateAndSetConfig on every candidate, on a plugin that has no
\* configuration yet or has one installed.
ConfigInit ==
    /\ TokenInit
    /\ StreamIdle
    /\ enabled = FALSE
    /\ LifeIdle
    /\ router = NoRouter
    /\ matched = NoMatch
    /\ \/ config = NoConfig /\ routes = <<>>
       \/ \E p \in LifeCandidates :
             /\ ConfigError(p) = "none"
             /\ config = Installed(p)
             /\ routes = p.MessageRoutes
       \/ /\ config = InstalledRouting([AppID |-> wxApp, AppSecret |-> secret,
                                       TemplateID |-> template, JumpURL |-> <<>>,
                                       OpenID |-> idB, Recipients |-> <<recA, recB>>,
                                       Routes |-> <<ruleUrgent, ruleAll>>])
          /\ routes = <<>>
    /\ job = NoJob
    /\ totalSent = 0
    /\ totalFail = 0
    /\ lastSentAt = -1
    /\ lastError = <<>>
    /\ notified = <<>>
    /\ outcome = [c \in Callers |-> "none"]
    /\ attempts = 0
    /\ reply = NoResp
    /\ deliveries = 0

ConfigSpec == ConfigInit /\ [][ConfigNext]_vars

\* A listener that Enable has started, on a plugin whose configuration has
\* a client token, a route and one recipient.
ForwardInit ==
    /\ TokenInit
    /\ enabled = TRUE
    /\ \E p \in LifeCandidates :
          /\ ConfigError(p) = "none"
          /\ StartsStream(p, p.MessageRoutes)
          /\ config = Installed(p)
          /\ routes = p.MessageRoutes
    /\ router = Built(NewMessageRouter(routes))
    /\ matched = NoMatch
    /\ job = NoJob
    /\ totalSent = 0
    /\ totalFail = 0
    /\ lastSentAt = -1
    /\ lastError = <<>>
    /\ notified = <<>>
    /\ outcome = [c \in Callers |-> "none"]
    /\ attempts = 0
    /\ reply = NoResp
    /\ deliveries = 0
    /\ sPc = "start"
    /\ backoff = 0
    /\ stopCh = FALSE
    /\ doneCh = FALSE
    /\ conn = "nil"
    /\ sock = "none"
    /\ stopPc = "idle"
    /\ frames = 0
    /\ forwarded = 0
    /\ prevWait = 0
    /\ connectedSince = FALSE
    /\ lateConn = FALSE
    /\ lateForwards = 0
    /\ LifeIdle

ForwardSpec == ForwardInit /\ [][ForwardNext]_vars

\* resolveRecipients called on a plugin of the routing variant.
RoutingInit ==
    /\ TokenInit
    /\ enabled = TRUE
    /\ config \in RoutingConfigs
    /\ job = NoJob
    /\ totalSent = 0
    /\ totalFail = 0
    /\ lastSentAt = -1
    /\ lastError = <<>>
    /\ notified = <<>>
    /\ outcome = [c \in Callers |-> "none"]
    /\ attempts = 0
    /\ reply = NoResp
    /\ deliveries = 0
    /\ RouterIdle
    /\ StreamIdle
    /\ LifeIdle

RoutingSpec == RoutingInit /\ [][RoutingNext]_vars

\* An enabled plugin; its configuration is one that ValidateAndSetConfig
\* installs, or has neither a legacy OpenID nor a recipient.
DeliverInit ==
    /\ TokenInit
    /\ enabled = TRUE
    /\ config \in Configs \cup {BaseConfig}
    /\ job = NoJob
    /\ totalSent = 0
    /\ totalFail = 0
    /\ lastSentAt = -1
    /\ lastError = <<>>
    /\ notified = <<>>
    /\ outcome = [c \in Callers |-> "none"]
    /\ attempts = 0
    /\ reply = NoResp
    /\ deliveries = 0
    /\ RouterIdle
    /\ StreamIdle
    /\ LifeIdle

DeliverSpec == DeliverInit /\ [][DeliverNext]_vars

----------------------------------------------------------------------------
(* Claims about getAccessToken *)

Done == {c \in Callers : pc[c] = "done"}
Invalid == Token = "" \/ now >= ExpiresAt - Margin

\* C1 (as stated): concurrent getAccessToken callers that start while the
\* cache holds no valid token cause exactly one credential exchange, and all
\* of them receive that exchange's token or all of them its failure.
C1_ExactlyOneExchange ==
    (firstRound /\ Active = {} /\ Cardinality(Done) >= 2) =>
        /\ exchanges = 1
        /\ \A c, d \in Done :
              /\ (call[c].kind = "error") = (call[d].kind = "error")
              /\ call[c].srcSeq = call[d].srcSeq

\* C1 (amended): at most one exchange is in flight; a failure is returned only
\* to the caller whose own exchange failed; a caller that made no exchange
\* returns the token a successful exchange stored, with more than 5 minutes
\* left; and a caller starts a further exchange after a successful one only
\* when the stored token has no more than 5 minutes left at its re-check.
C1_SingleFlight ==
    /\ [](/\ Cardinality({c \in Callers : pc[c] = "exchange"}) <= 1
          /\ \A c \in Done :
                /\ call[c].kind = "error" => call[c].exSeq # 0
                /\ call[c].exSeq = 0 =>
                      /\ call[c].kind = "cached"
                      /\ call[c].srcSeq \in 1..exchanges
                      /\ call[c].slack > Margin
                /\ call[c].kind = "fresh" => call[c].srcSeq = call[c].exSeq)
    /\ [][\A c \in Callers :
            (pc[c] = "locked" /\ pc'[c] = "exchange" /\ lastEx = "ok") =>
                (Token # "" /\ now >= ExpiresAt - Margin)]_vars

\* Two concurrent callers of the first round: one made the exchange, the other
\* returned the token of that exchange.
C1_Witness ==
    /\ firstRound /\ Active = {} /\ exchanges = 1
    /\ \E c, d \in Done :
          /\ call[c].kind = "fresh" /\ call[d].kind = "cached"
          /\ call[d].srcSeq = call[c].exSeq

\* C2 (as stated): every token getAccessToken returns has more than 5 minutes
\* left (now < ExpiresAt - 5 min) when it is returned, whatever the lifetime.
C2_NeverWithinMargin ==
    \A c \in Done : call[c].kind \in {"cached", "fresh"} => call[c].slack > Margin

\* C2 (amended): a token returned from the cache has more than 5 minutes left
\* when it is returned; a freshly fetched token is returned as it is, with
\* the lifetime the push API reported, also when that is 5 minutes or less.
C2_CachedOutsideMargin ==
    \A c \in Done :
        /\ call[c].kind = "cached" => call[c].slack > Margin
        /\ call[c].kind = "fresh" => call[c].slack \in Lifetimes

\* One call returned the cached token, another a fresh token of 200 s.
C2_Witness ==
    \E c, d \in Done :
        /\ call[c].kind = "cached" /\ call[c].slack > Margin
        /\ call[d].kind = "fresh" /\ call[d].slack <= Margin

\* C9: a failed exchange leaves Token and ExpiresAt as they were and is
\* returned to the caller that made it; after it the cache holds no valid
\* token, so no call returns a cached token (or a failure it did not get from
\* its own exchange) until an exchange has succeeded.
C9_FailureLeavesCache ==
    /\ [][\A c \in Callers :
            (pc[c] = "exchange" /\ pc'[c] = "done" /\ call'[c].kind = "error") =>
                (Token' = Token /\ ExpiresAt' = ExpiresAt /\ lastEx' = "fail")]_vars
    /\ [](lastEx = "fail" => Invalid)
    /\ [][\A c \in Callers :
            (pc[c] # "done" /\ pc'[c] = "done") =>
                /\ call'[c].kind = "cached" => lastEx = "ok"
                /\ call'[c].kind = "error" => pc[c] = "exchange"]_vars

\* An exchange failed and a later call has made a new exchange.
C9_Witness ==
    \E c, d \in Callers :
        /\ pc[c] = "done" /\ call[c].kind = "error"
        /\ call[d].exSeq > call[c].exSeq
        /\ lastEx = "fail"

\* C10: a call makes the exchange if and only if, at its check, no token is
\* cached or now >= ExpiresAt - 300 s; the fast path under the read lock and
\* the re-check under the exclusive lock decide alike, and an exchange
\* request is sent by nothing else.
C10_ExchangeIffExpired ==
    [][/\ \A c \in Callers :
            /\ (pc[c] = "rlocked" /\ pc'[c] # "rlocked") =>
                  ((pc'[c] = "lock") <=> Invalid)
            /\ (pc[c] = "locked" /\ pc'[c] # "locked") =>
                  ((pc'[c] = "exchange") <=> Invalid)
       /\ (exchanges' # exchanges) <=>
            (\E c \in Callers : pc[c] = "locked" /\ pc'[c] = "exchange")]_vars

\* A token of 600 s: a call 100 s after the fetch returned it from the cache,
\* a call 595 s after the fetch is making the exchange.
C10_Witness ==
    \E c, d \in Callers :
        /\ pc[c] = "done" /\ call[c].kind = "cached" /\ call[c].slack = 500
        /\ pc[d] = "exchange" /\ Token # "" /\ ExpiresAt - now = 5

\* A goroutine is between the assignment of Token and that of ExpiresAt.
HalfWritten == \E c \in Callers : pc[c] = "store"

\* The goroutines that read Token and ExpiresAt at their next step.
Reading == {c \in Callers : pc[c] \in {"rlocked", "locked"}}

\* C16: on one token cache at most one exchange is in flight, and no caller
\* reads the pair (Token, ExpiresAt) between the two assignments of a refresh:
\* while a goroutine holds the exclusive lock no other goroutine is in a read
\* or write section, and ExpiresAt changes only with the token of the same
\* exchange in place.
C16_NoHalfWrittenRead ==
    /\ [](/\ Cardinality({c \in Callers : pc[c] \in {"exchange", "store"}}) <= 1
          /\ HalfWritten => (Reading = {} /\ rwReaders = {})
          /\ \A c \in Callers :
                pc[c] \in {"locked", "exchange", "store"} =>
                    /\ rwWriter = c
                    /\ rwReaders = {}
                    /\ \A d \in Callers \ {c} :
                          pc[d] \notin {"rlocked", "locked", "exchange", "store"})
    /\ [][\A c \in Callers :
            (pc[c] \in {"rlocked", "locked"} /\ pc'[c] # pc[c]) => ~HalfWritten]_vars

\* One goroutine has assigned the new Token over an older one and not yet
\* ExpiresAt, while another waits to read.
C16_Witness ==
    \E c, d \in Callers :
        /\ pc[c] = "store"
        /\ Token # ""
        /\ ExpiresAt > 0
        /\ ExpiresAt # now + call[c].slack
        /\ pc[d] = "rlock"

----------------------------------------------------------------------------
(* Claims about the delivery *)

\* m is the masked form of id: "****" for up to 8 characters, otherwise the
\* first four and the last four characters around "****".
IsMaskOf(m, id) ==
    IF Len(id) <= 8 THEN m = Stars
    ELSE /\ Len(m) = 12
         /\ \A i \in 1..4 : m[i] = id[i] /\ m[4 + i] = "*" /\ m[8 + i] = id[Len(id) - 4 + i]

\* Two addresses that are masked alike.
SameMask(a, b) ==
    IF Len(a) <= 8 \/ Len(b) <= 8 THEN Len(a) <= 8 /\ Len(b) <= 8
    ELSE \A i \in 1..4 : a[i] = b[i] /\ a[Len(a) - 4 + i] = b[Len(b) - 4 + i]

\* The recipients (positions of the list) whose attempt failed.
Failed == {c \in 1..Len(job.openIDs) : outcome[c] # "ok"}

\* C3: sendToMultiple with N recipients of which K attempts fail returns K
\* errors, one per failed recipient and naming its masked address, and adds K
\* to total-failed and N-K to total-sent; with no delivery in progress,
\* total-sent + total-failed is the number of attempts made.
C3_TallyCounts ==
    /\ [][(job.pc = "waiting" /\ job'.pc = "idle") =>
            LET n == Len(job.openIDs)
                k == Cardinality(Failed)
                ret == job'.errs
            IN /\ Len(ret) = k
               /\ \A c \in Failed :
                     \E i \in 1..Len(ret) : IsMaskOf(ret[i].openid, job.openIDs[c])
               /\ \A id \in OpenIDs \cup {idB} :
                     Cardinality({i \in 1..Len(ret) : IsMaskOf(ret[i].openid, id)})
                       = Cardinality({c \in Failed : SameMask(job.openIDs[c], id)})
               /\ totalFail' = totalFail + k
               /\ totalSent' = totalSent + (n - k)]_vars
    /\ [](job.pc = "idle" => totalSent + totalFail = attempts)

\* Two recipients, one failed: one error, one sent, one failed.
C3_Witness ==
    /\ job.pc = "idle"
    /\ Len(job.openIDs) = 2 /\ Cardinality(Failed) = 1
    /\ Len(job.errs) = 1
    /\ totalSent = 1 /\ totalFail = 1

Answered == job.pc = "idle" /\ reply.status \in {200, 500}

----------------------------------------------------------------------------
(* Claims about the stream listener *)

\* C4: the wait before a reconnect attempt is 1 second after the first
\* failure, twice the previous wait (at most 120 seconds) after each further
\* failure with no successful connection in between, and never below 1 second
\* nor above 120 seconds.
C4_BackoffSchedule ==
    sPc = "backoff" =>
        /\ backoff >= 1
        /\ backoff <= 120
        /\ prevWait = 0 => backoff = 1
        /\ (prevWait > 0 /\ ~connectedSince) =>
               backoff = IF 2 * prevWait > 120 THEN 120 ELSE 2 * prevWait

\* The eighth consecutive failure: the wait after one of 64 seconds is capped.
C4_Witness ==
    /\ sPc = "backoff"
    /\ prevWait = 64
    /\ ~connectedSince
    /\ backoff = 120

\* C5: once Stop has closed stopCh it eventually returns, and it has returned
\* only when the Start loop has exited (done is closed and no connection is
\* left open); a loop that waits in backoff when the stop is requested exits,
\* although nothing makes the delay elapse; a connection opened by a dial that
\* completes after the stop request is closed, and no frame is read or
\* forwarded from it.
C5_StopTerminates ==
    /\ (stopPc # "idle") ~> (stopPc = "returned")
    /\ [](stopPc = "returned" => (sPc = "exited" /\ doneCh /\ sock # "open"))
    /\ (stopCh /\ sPc = "backoff") ~> (sPc = "exited")
    /\ (lateConn /\ sock = "open") ~> (sock = "closed")
    /\ [](lateForwards = 0)
    /\ [][lateConn => frames' = frames]_vars

\* Stop has returned after a dial completed behind the stop request, on a
\* listener that had read frames and waited before.
C5_Witness ==
    /\ stopPc = "returned"
    /\ lateConn
    /\ sock = "closed"
    /\ prevWait > 0
    /\ frames > 0

----------------------------------------------------------------------------
(* Claims about the router *)

\* The trimmed path is "*": one star between spaces.
IsWildcard(p) ==
    \E i \in 1..Len(p) :
        /\ p[i] = "*"
        /\ \A j \in 1..Len(p) : j # i => p[j] = " "

RECURSIVE Pow10(_)
Pow10(n) == IF n = 0 THEN 1 ELSE 10 * Pow10(n - 1)

RECURSIVE DecimalValue(_, _, _)
DecimalValue(p, k, b) ==
    IF k > b THEN 0 ELSE DigitValue(p[k]) * Pow10(b - k) + DecimalValue(p, k + 1, b)

\* The trimmed path ends in a maximal run of digits whose number is id.
NamesApp(p, id) ==
    \E a \in 1..Len(p), b \in 1..Len(p) :
        /\ a <= b
        /\ \A j \in 1..Len(p) : (j < a \/ j > b) => p[j] = " "
        /\ p[a] # " "
        /\ p[b] # " "
        /\ \E k \in a..b :
              /\ \A j \in k..b : IsDigit(p[j])
              /\ k = a \/ ~IsDigit(p[k - 1])
              /\ DecimalValue(p, k, b) = id

HasWildcard == \E i \in 1..Len(routes) : IsWildcard(routes[i])

\* C6: when the rule list holds a rule whose trimmed path is "*", at any
\* position, Match is true for every event.
C6_WildcardMatchesAll ==
    (matched.called /\ HasWildcard) => matched.result

\* The wildcard is the second rule, written with spaces, and the event's
\* application is not named by the first rule.
C6_Witness ==
    /\ matched.called
    /\ Len(routes) = 2
    /\ ~IsWildcard(routes[1])
    /\ IsWildcard(routes[2])
    /\ routes[2] # Wild
    /\ ~NamesApp(routes[1], matched.appid)
    /\ matched.result

\* C7: without a wildcard rule, Match is true exactly when the event's AppID
\* is the number of the trailing digits of the trimmed path of some rule.
C7_MatchIffNamed ==
    (matched.called /\ ~HasWildcard) =>
        (matched.result <=> \E i \in 1..Len(routes) : NamesApp(routes[i], matched.appid))

\* Rules messages/1 and messages/3: an event of application 1 matches.
C7_Witness ==
    /\ routes = <<MessagesOne, MessagesThree>>
    /\ matched.called
    /\ matched.appid = 1
    /\ matched.result

----------------------------------------------------------------------------
(* Claims about the configuration and the lifecycle *)

IsBlank(s) == \A i \in 1..Len(s) : s[i] = " "

\* What makes ValidateAndSetConfig reject a configuration.
Flawed(c) ==
    \/ IsBlank(c.AppID) \/ IsBlank(c.AppSecret) \/ IsBlank(c.TemplateID)
    \/ ~(Len(c.AppID) >= 2 /\ c.AppID[1] = "w" /\ c.AppID[2] = "x")
    \/ IsBlank(c.OpenID) /\ c.Recipients = <<>>
    \/ \E i \in 1..Len(c.Recipients) :
          \/ IsBlank(c.Recipients[i].Name)
          \/ IsBlank(c.Recipients[i].OpenID)
          \/ \E j \in 1..Len(c.Recipients) :
                i # j /\ c.Recipients[i].Name = c.Recipients[j].Name
    \/ \E i \in 1..Len(c.MessageRoutes) : IsBlank(c.MessageRoutes[i])
    \/ c.MessageRoutes # <<>> /\ IsBlank(c.ClientToken)

\* What makes the ValidateAndSetConfig of the routing variant reject one.
FlawedRouting(c) ==
    \/ IsBlank(c.AppID) \/ IsBlank(c.AppSecret) \/ IsBlank(c.TemplateID)
    \/ ~(Len(c.AppID) >= 2 /\ c.AppID[1] = "w" /\ c.AppID[2] = "x")
    \/ IsBlank(c.OpenID) /\ c.Recipients = <<>>
    \/ \E i \in 1..Len(c.Recipients) :
          \/ IsBlank(c.Recipients[i].Name)
          \/ IsBlank(c.Recipients[i].OpenID)
          \/ \E j \in 1..Len(c.Recipients) :
                i # j /\ c.Recipients[i].Name = c.Recipients[j].Name
    \/ \E i \in 1..Len(c.Routes) :
          \/ IsBlank(c.Routes[i].Name)
          \/ c.Routes[i].Recipients = <<>>
          \/ \E k \in 1..Len(c.Routes[i].Recipients) :
                \A j \in 1..Len(c.Recipients) :
                   c.Recipients[j].Name # c.Routes[i].Recipients[k]

\* C12: ValidateAndSetConfig given a configuration with a missing required
\* field, an AppID that does not start with "wx", a duplicate recipient name,
\* a route without path (in the routing variant: a route naming an unknown
\* recipient), or routes without a client token returns an error and leaves
\* the installed configuration as it was; a configuration that passes every
\* check is installed, and nothing else is.
C12_InvalidConfigRejected ==
    [][lastCall'.op = "ValidateAndSetConfig" =>
          IF "Routes" \in DOMAIN lastCall'.cand
          THEN /\ FlawedRouting(lastCall'.cand) =>
                     (lastCall'.err # "none" /\ config' = config)
               /\ ~FlawedRouting(lastCall'.cand) =>
                     /\ lastCall'.err = "none"
                     /\ \A f \in {"AppID", "AppSecret", "TemplateID", "OpenID",
                                   "Recipients", "Routes"} :
                           config'[f] = lastCall'.cand[f]
          ELSE /\ Flawed(lastCall'.cand) =>
                     (lastCall'.err # "none" /\ config' = config /\ routes' = routes)
               /\ ~Flawed(lastCall'.cand) =>
                     /\ lastCall'.err = "none"
                     /\ routes' = lastCall'.cand.MessageRoutes
                     /\ \A f \in {"AppID", "AppSecret", "TemplateID", "OpenID",
                                   "Recipients", "ClientToken"} :
                           config'[f] = lastCall'.cand[f]]_vars

\* A configuration with a duplicate recipient name was rejected and the
\* configuration installed before, with its route, is still in effect.
C12_Witness ==
    /\ lastCall.op = "ValidateAndSetConfig"
    /\ "MessageRoutes" \in DOMAIN lastCall.cand
    /\ lastCall.cand.Recipients = <<recA, recB, recA2>>
    /\ lastCall.cand.MessageRoutes = <<MessagesOne>>
    /\ lastCall.err = "duplicate recipient name"
    /\ config.OpenID = idB
    /\ routes = <<MessagesOne>>

\* C11: total-sent and total-failed never decrease, whatever the host calls:
\* Enable, Disable, ValidateAndSetConfig, requests and stream events; Enable
\* after Disable leaves them as they were.
C11_CountersNeverDecrease ==
    [][/\ totalSent' >= totalSent
       /\ totalFail' >= totalFail
       /\ lastCall'.op \in {"Enable", "Disable", "ValidateAndSetConfig"} =>
             (totalSent' = totalSent /\ totalFail' = totalFail)]_vars

\* After deliveries that succeeded and failed, the plugin was disabled and
\* enabled again.
C11_Witness ==
    /\ lastCall.op = "Enable"
    /\ enabled
    /\ totalSent > 0
    /\ totalFail > 0
    /\ \E i, j \in 1..Len(notified) :
          /\ i < j
          /\ j < Len(notified)
          /\ notified[i].type = "delivery"
          /\ notified[j].type = "disabled"

----------------------------------------------------------------------------
(* Claims about sendToMultiple and forwardToWeChat called directly *)

\* What a delivery leaves behind: exchanges, push attempts, counters, the
\* last-sent time, the last error, notifications and the cached token.
DeliveryTraces ==
    <<exchanges, attempts, totalSent, totalFail, lastSentAt, lastError, notified,
      Token, ExpiresAt>>

\* C14: sendToMultiple with an empty list makes no exchange and no push,
\* leaves the counters, the last-sent time and the last error as they were,
\* notifies nothing and returns no error; forwardToWeChat with no recipient
\* configured does the same.
C14_EmptyListIsNoOp ==
    [][/\ (lastCall'.op = "sendToMultiple" /\ job'.openIDs = <<>>) =>
             (UNCHANGED DeliveryTraces /\ job'.errs = <<>>)
       /\ (lastCall'.op = "forwardToWeChat" /\ getAllOpenIDs(config) = <<>>) =>
             (UNCHANGED DeliveryTraces /\ job'.errs = <<>>)]_vars

\* After a delivery that succeeded for one recipient and failed for another,
\* sendToMultiple was called with the empty list.
C14_Witness ==
    /\ lastCall.op = "sendToMultiple"
    /\ job.openIDs = <<>>
    /\ deliveries = 2
    /\ totalSent = 1
    /\ totalFail = 1

----------------------------------------------------------------------------
(* Claims about resolveRecipients *)

\* The condition of the i-th rule holds for the event of the last call.
ConditionHolds(i) ==
    /\ \/ config.Routes[i].AppID = {}
       \/ resolution.appID \in config.Routes[i].AppID
    /\ \/ config.Routes[i].MinPriority = <<>>
       \/ config.Routes[i].MinPriority[1] <= resolution.priority

\* The result is the addresses of the recipients that the i-th rule names.
ResultIsListOf(i) ==
    /\ Len(resolution.result) = Len(config.Routes[i].Recipients)
    /\ \A k \in 1..Len(resolution.result) :
          \E j \in 1..Len(config.Recipients) :
             /\ config.Recipients[j].Name = config.Routes[i].Recipients[k]
             /\ config.Recipients[j].OpenID = resolution.result[k]

\* C15: the rules are tested in declared order and the first whose condition
\* holds (its application ids are none or contain the event's, and its
\* minimum priority is unset or at most the event's) decides the recipients,
\* an empty list included, with no fallthrough; when no rule matches the
\* result is empty, and without rules it is every configured recipient.
C15_FirstMatchingRuleDecides ==
    resolution.called =>
        IF config.Routes = <<>>
        THEN resolution.result = getAllOpenIDs(config)
        ELSE IF \A i \in 1..Len(config.Routes) : ~ConditionHolds(i)
        THEN resolution.result = <<>>
        ELSE \E i \in 1..Len(config.Routes) :
                /\ ConditionHolds(i)
                /\ \A j \in 1..(i - 1) : ~ConditionHolds(j)
                /\ ResultIsListOf(i)

\* The first rule asks for another application, the second matches and names
\* nobody: the result is empty.
C15_Witness ==
    /\ resolution.called
    /\ Len(config.Routes) = 2
    /\ ~ConditionHolds(1)
    /\ config.Routes[1].Recipients # <<>>
    /\ ConditionHolds(2)
    /\ config.Routes[2].MinPriority # <<>>
    /\ config.Routes[2].Recipients = <<>>
    /\ resolution.result = <<>>

----------------------------------------------------------------------------
(* Claims about the attempts of one sendToMultiple call *)

Recipients == 1..Len(job.openIDs)
Returns == job.pc = "waiting" /\ job'.pc = "idle"

\* C17: within one sendToMultiple call the counters are updated, the
\* notifications are triggered and the call returns only after the attempt
\* of every recipient has completed.
C17_TallyAfterEveryAttempt ==
    [][(\/ totalSent' # totalSent
        \/ totalFail' # totalFail
        \/ lastError' # lastError
        \/ notified' # notified
        \/ reply' # reply /\ job.pc = "waiting"
        \/ Returns) =>
           \A c \in Recipients : pc[c] = "exited" /\ outcome[c] # "none"]_vars

\* The call has returned after both attempts: the first failed at the token,
\* the push of the second succeeded, and both notifications were sent.
C17_Witness ==
    /\ job.pc = "idle"
    /\ Len(job.openIDs) = 2
    /\ outcome[1] = "token"
    /\ outcome[2] = "ok"
    /\ Len(notified) = 2
    /\ reply.status = 500

\* C18: every recipient of the list gets exactly one attempt and at most one
\* push request; an attempt that fails neither cancels nor skips the others,
\* and nothing is tried again.
C18_OneAttemptEach ==
    /\ [](job.pc = "idle" => attempts = totalSent + totalFail)
    /\ [][\A c \in Callers :
            /\ (pc'[c] = "start" /\ pc[c] # "start") => job.pc = "idle"
            /\ (pc[c] = "start" /\ pc'[c] # "start") => attempts' = attempts + 1
            /\ (pc'[c] = "post" /\ pc[c] # "post") =>
                  (pc[c] = "done" /\ call[c].kind # "error")
            /\ (pc[c] = "post" /\ pc'[c] # "post") => pc'[c] = "exited"
            /\ (pc[c] = "exited" /\ pc'[c] # "exited") => Returns
            /\ (pc'[c] = "exited" /\ pc[c] # "exited") =>
                  /\ pc[c] \in {"done", "post"}
                  /\ \A d \in Callers \ {c} :
                        pc'[d] = pc[d] /\ outcome'[d] = outcome[d]]_vars
    /\ [][attempts' # attempts =>
            \E c \in Callers : pc[c] = "start" /\ pc'[c] # "start"]_vars
    /\ [][Returns => \A c \in Recipients : outcome[c] # "none"]_vars

\* The push of the first recipient failed; the second recipient was attempted
\* all the same, once, and its push succeeded.
C18_Witness ==
    /\ job.pc = "idle"
    /\ Len(job.openIDs) = 2
    /\ outcome[1] = "request"
    /\ outcome[2] = "ok"
    /\ attempts = 2
    /\ totalSent = 1
    /\ totalFail = 1

----------------------------------------------------------------------------
(* Claims about the Start loop after a failure *)

\* C19: the Start loop exits only on a stop request: no failure to resolve,
\* to dial or to read ends it. After a failure, unless a stop was requested,
\* no connection is held, the failure is reported to the host, and when the
\* wait has elapsed connectAndListen is called again.
C19_OnlyStopEndsTheLoop ==
    /\ [](sPc = "exited" => stopCh)
    /\ [](sPc \in {"failed", "backoff"} => conn = "nil")
    /\ [][(sPc = "failed" /\ sPc' # "failed" /\ ~stopCh) =>
            /\ sPc' = "backoff"
            /\ notified' = Append(notified, [type |-> "error", count |-> 1, total |-> 1])
            /\ backoff' = backoff]_vars
    /\ [][(sPc = "backoff" /\ sPc' # "backoff" /\ ~stopCh) => sPc' = "top"]_vars
    /\ [][(sPc = "top" /\ sPc' # "top" /\ ~stopCh) =>
            sPc' \in {"dialing", "failed"}]_vars
    /\ (sPc = "backoff" /\ ~stopCh) ~> (sPc \in {"dialing", "failed"} \/ stopCh)

\* A dial failed and then a read failed; both were reported, both waits have
\* elapsed, and the loop dials again.
C19_Witness ==
    /\ sPc = "dialing"
    /\ ~stopCh
    /\ Len(notified) = 2
    /\ frames = 1
    /\ prevWait = 2
    /\ backoff = 4
    /\ conn = "nil"

----------------------------------------------------------------------------
(* Claims about a frame that does not decode *)

FrameRead == frames' = frames + 1

\* C20: a frame that does not decode starts no delivery, changes no counter
\* and does not disconnect: the connection stays open and held, the backoff
\* is what it was, and the loop goes on to read the next frame, which is
\* routed as any other.
C20_BadFrameSkipped ==
    /\ [][(FrameRead /\ ~lastFrame'.decodes) =>
            /\ forwarded' = forwarded
            /\ matched' = matched
            /\ UNCHANGED <<totalSent, totalFail, attempts, lastError, notified>>
            /\ conn = "set" /\ conn' = "set"
            /\ sock = "open" /\ sock' = "open"
            /\ backoff' = backoff
            /\ sPc' = "listen"]_vars
    /\ [][(FrameRead /\ lastFrame'.decodes) =>
            /\ matched' = [appid |-> lastFrame'.appid,
                           result |-> Match(router, lastFrame'.appid),
                           called |-> TRUE]
            /\ forwarded' = forwarded + (IF Match(router, lastFrame'.appid) THEN 1 ELSE 0)]_vars
    /\ [][(sPc = "listen" /\ sPc' # "listen" /\ ~stopCh) => sPc' = "reading"]_vars

\* Of two frames read on one connection by a router that matches every event
\* only the second was forwarded: the first did not decode.
C20_Witness ==
    /\ routes = <<Wild>>
    /\ frames = 2
    /\ lastFrame.decodes
    /\ forwarded = 1
    /\ notified = <<>>
    /\ conn = "set"
    /\ backoff = 1

----------------------------------------------------------------------------
(* Claims about the forwardToWeChat goroutines *)

\* C21: the read loop never waits for a delivery. Whatever goroutines are
\* still running, the loop can check for a stop and read the next frame;
\* reading a matching event starts one more goroutine and ends none, so
\* several run at once, and they may return in another order than their
\* events arrived.
C21_ReadLoopNeverWaits ==
    /\ [](sPc = "listen" => ENABLED ListenCheck)
    /\ []((sPc = "reading" /\ sock = "open" /\ frames < MaxFrames) =>
            ENABLED (\E f \in Frames : ReadFrame(f)))
    /\ [][(FrameRead /\ lastFrame'.decodes /\ Match(router, lastFrame'.appid)) =>
            /\ forwarded' = forwarded + 1
            /\ finished' = finished
            /\ UNCHANGED <<attempts, totalSent, totalFail, notified, exchanges>>]_vars

\* Two events were forwarded on one connection; the goroutine of the second
\* returned first, after a credential exchange, and then that of the first.
C21_Witness ==
    /\ Len(finished) = 2
    /\ finished[1].task = 2
    /\ finished[2].task = 1
    /\ ~finished[1].stopped
    /\ frames = 2
    /\ exchanges = 1
    /\ totalSent = 2

----------------------------------------------------------------------------
(* Claims about Connected *)

InConnectAndListen == sPc \in {"listen", "reading"}

\* C22: Connected() is true exactly while the listener holds a connection:
\* false before the first successful dial, during every dial and every
\* backoff wait, true from a successful dial until connectAndListen returns,
\* and false once Stop has returned.
C22_ConnectedWhileListening ==
    /\ [](Connected <=> InConnectAndListen)
    /\ [](stopPc = "returned" => ~Connected)
    /\ [][(~Connected /\ Connected') => (sPc = "dialing" /\ sPc' = "listen")]_vars
    /\ [][(Connected /\ ~Connected') => sPc' \in {"top", "failed"}]_vars

\* A connection was opened, a frame was read on it and then the read failed:
\* during the wait Connected() is false.
C22_Witness ==
    /\ sPc = "backoff"
    /\ ~Connected
    /\ sock = "closed"
    /\ frames = 1
    /\ connectedSince
    /\ ~stopCh

\* C23: once Stop has returned the listener reads no frame and starts no
\* forwardToWeChat goroutine; Stop ends none of the goroutines started before
\* it, each of them can still return, and its delivery changes the counters
\* and the notifications after Stop has returned.
C23_StopLeavesGoroutinesRunning ==
    /\ [](stopPc = "returned" => sPc = "exited")
    /\ [][stopPc = "returned" => (frames' = frames /\ forwarded' = forwarded)]_vars
    /\ [][stopPc' # stopPc =>
            /\ finished' = finished
            /\ Running' = Running
            /\ UNCHANGED <<attempts, totalSent, totalFail, notified>>]_vars
    /\ [](\A t \in Running : ENABLED ForwardDone(t, {}))

\* A goroutine returned after Stop had returned, and its delivery was counted
\* and notified.
C23_Witness ==
    /\ stopPc = "returned"
    /\ Len(finished) = 1
    /\ finished[1].stopped
    /\ totalSent = 1
    /\ Len(notified) = 1
    /\ Running = {}

----------------------------------------------------------------------------
(* Claims about the notifications of a delivery *)

NewNotices == SubSeq(notified', Len(notified) + 1, Len(notified'))
NoticeOf(type) == {i \in 1..Len(NewNotices) : NewNotices[i].type = type}

\* C24: a delivery to a non-empty list that completes makes a failure
\* notification exactly when some recipient failed and a delivery notification
\* exactly when some recipient succeeded; the counters and the answer are
\* those of the recipients' results, whether the host's SendMessage succeeds
\* or returns an error.
C24_NoticesFollowResults ==
    [][(Returns /\ Len(job.openIDs) > 0) =>
          LET n == Len(job.openIDs)
              k == Len(job.errs)
          IN /\ (NoticeOf("error") # {}) <=> (k > 0)
             /\ (NoticeOf("delivery") # {}) <=> (n - k > 0)
             /\ Cardinality(NoticeOf("error")) <= 1
             /\ Cardinality(NoticeOf("delivery")) <= 1
             /\ Len(NewNotices) = Cardinality(NoticeOf("error") \cup NoticeOf("delivery"))
             /\ totalFail' = totalFail + k
             /\ totalSent' = totalSent + (n - k)
             /\ job'.errs = job.errs
             /\ reply' = Respond(job.errs, n)
             /\ hostDown' = hostDown]_vars

\* A delivery to two recipients, one of which failed, completed while the
\* host refused notifications: both notifications were made and both
\* counters moved.
C24_Witness ==
    /\ hostDown
    /\ job.pc = "idle"
    /\ Len(job.openIDs) = 2
    /\ Len(job.errs) = 1
    /\ totalSent = 1
    /\ totalFail = 1
    /\ Len(notified) = 2
    /\ reply.status = 500

----------------------------------------------------------------------------
(* Claims about the listeners of Enable and Disable *)

RunningListeners == {l \in 1..Len(listeners) : listeners[l].running}

\* C25: after any sequence of Enable and Disable calls at most one listener
\* loop is running, and none after Disable or while the plugin counts as
\* disabled: a listener started by an Enable is stopped before another one is
\* started.
C25_AtMostOneListener ==
    /\ Cardinality(RunningListeners) <= 1
    /\ lastCall.op = "Disable" => RunningListeners = {}
    /\ ~enabled => RunningListeners = {}

----------------------------------------------------------------------------
(* Claims about the reconnect delay over the life of a listener *)

\* C26: the reconnect delay of a listener never decreases; once set to its
\* initial value it changes only when a backoff wait has elapsed, to twice
\* its value and at most 120 seconds, and a successful connection leaves it
\* as it is.
C26_DelayNeverDecreases ==
    /\ [][backoff' >= backoff]_vars
    /\ [][(sPc # "start" /\ backoff' # backoff) =>
            /\ sPc = "backoff" /\ sPc' = "top"
            /\ backoff' = IF 2 * backoff > MaxBackoff THEN MaxBackoff ELSE 2 * backoff]_vars
    /\ [][(sPc = "dialing" /\ sPc' = "listen") => backoff' = backoff]_vars
    /\ []((sPc = "backoff" /\ prevWait > 0) =>
            backoff = IF 2 * prevWait > MaxBackoff THEN MaxBackoff ELSE 2 * prevWait)

\* The listener waited 2 seconds, connected, lost the connection and now
\* waits 4 seconds.
C26_Witness ==
    /\ sPc = "backoff"
    /\ connectedSince
    /\ prevWait = 2
    /\ backoff = 4
    /\ sock = "closed"

----------------------------------------------------------------------------
(* Claims about getAccessToken and the TokenCache of Enable *)

Leaves(c, at) == pc[c] = at /\ (pc'[c] # at \/ fatal')

\* C27: every getAccessToken call releases the lock it acquired and reads and
\* writes the TokenCache instance it locked, also when Enable installs a new
\* instance while the call is under way: no lock is unlocked that is not
\* held, and no two exchanges are under way at once.
C27_LocksTheCacheItUses ==
    /\ [](~fatal)
    /\ [](Cardinality({c \in Callers : pc[c] = "exchange"}) <= 1)
    /\ [][\A c \in Callers :
            /\ Leaves(c, "rlocked") => tokenCache = held[c].r
            /\ Leaves(c, "locked") => tokenCache = held[c].w
            /\ Leaves(c, "store") => tokenCache = held[c].w
            /\ Leaves(c, "expiry") => tokenCache = held[c].w
            /\ Leaves(c, "return") => held[c].d = held[c].w]_vars

----------------------------------------------------------------------------
(* Claims about reconfiguration while the plugin is enabled *)

EventStep == lastCall'.op = "event" /\ deliveries' = deliveries + 1

\* C28: a listener matches events against the routes of the configuration
\* that was installed when the Enable that started it ran: a later
\* ValidateAndSetConfig leaves the router of every listener as it is; the
\* recipients of a forwarded event are those of the configuration installed
\* when it is forwarded.
C28_RoutesOfEnableRecipientsOfNow ==
    /\ [][(config' # config \/ routes' # routes) => listeners' = listeners]_vars
    /\ [][/\ \A l \in 1..Len(listeners) : listeners'[l].router = listeners[l].router
          /\ Len(listeners') > Len(listeners) =>
                /\ lastCall'.op = "Enable"
                /\ listeners'[Len(listeners')].router = NewMessageRouter(routes)]_vars
    /\ [][EventStep =>
            /\ \E l \in 1..Len(listeners) :
                  /\ listeners[l].running
                  /\ matched'.result = Match(listeners[l].router, matched'.appid)
            /\ attempts' - attempts =
                  IF matched'.result THEN Len(getAllOpenIDs(config)) ELSE 0]_vars

\* The listener was started with the route messages/1 and a single legacy
\* recipient; the configuration installed since has no route and two
\* recipients: an event of application 1 is forwarded, to the two recipients.
C28_Witness ==
    /\ lastCall.op = "event"
    /\ routes = <<>>
    /\ Len(getAllOpenIDs(config)) = 2
    /\ matched.called /\ matched.appid = 1 /\ matched.result
    /\ attempts = 2
    /\ Len(listeners) = 1 /\ listeners[1].running

----------------------------------------------------------------------------
(* Claims about requests to a disabled plugin *)

RequestStep == lastCall'.op \in {"send", "test"} /\ deliveries' = deliveries + 1

\* C29: a /send or /test request that arrives while the plugin is disabled,
\* before the first Enable or after a Disable has returned, is answered 503
\* and starts no attempt and no exchange and changes no counter and no
\* notification; Enable without an installed configuration returns the error
\* "plugin not configured" and leaves the plugin disabled, without listener.
C29_DisabledPluginRejects ==
    /\ [][(RequestStep /\ ~enabled) =>
            /\ reply'.status = 503
            /\ UNCHANGED <<attempts, exchanges, Token, ExpiresAt, totalSent, totalFail,
                           lastSentAt, lastError, notified>>]_vars
    /\ [][enabled' # enabled => lastCall'.op \in {"Enable", "Disable"}]_vars
    /\ [](lastCall.op = "Disable" => ~enabled)
    /\ [][(lastCall'.op = "Enable" /\ config = NoConfig) =>
            /\ lastCall'.err = "plugin not configured"
            /\ ~enabled'
            /\ UNCHANGED <<stream, listeners, tokenCache, notified>>]_vars
    /\ [](config = NoConfig => (~enabled /\ stream = 0 /\ listeners = <<>>))

\* The plugin was enabled and disabled again; the request that followed was
\* answered 503 and nothing was attempted.
C29_Witness ==
    /\ lastCall.op = "send"
    /\ reply.status = 503
    /\ Len(notified) = 2
    /\ notified[1].type = "enabled"
    /\ notified[2].type = "disabled"
    /\ attempts = 0
    /\ exchanges = 0
    /\ Len(getAllOpenIDs(config)) > 0

====
